---- MODULE Spec2Model ----
(***************************************************************************)
(* Model of adaptive-scale/superclass: the extractor Registry              *)
(* (pkg/extractor registry), the extraction / classification pipeline      *)
(* (pkg/extractor/extractor.go) and the classifier backends                *)
(* (pkg/classifier).                                                       *)
(*                                                                         *)
(* Strings are sequences of one-character strings, so that lower-casing,   *)
(* prefix tests and case folding are computed character by character.      *)
(***************************************************************************)
EXTENDS Integers, Sequences, FiniteSets, TLC

VARIABLES
    registry,   \* Registry.extractors: normalized extension -> extractor
    supported,  \* what each extractor's SupportedExtensions() returns
    mu,         \* Registry.mu: [writer, readers]
    pc,         \* per goroutine: the Registry call it is inside of
    backend,    \* a Classifier: its variant, apiKey, model, endpoint, parameters
    last        \* the most recently returned call, with its results

vars == <<registry, supported, mu, pc, backend, last>>

None == "none"

\* no Classifier constructed yet
NoBackend == [variant |-> None]

\* a nil error, and the errors of the registry
Nil == [kind |-> "nil"]
ErrAlreadyRegistered(ext) == [kind |-> "already registered", ext |-> ext]
ErrNoExtractor(ext) == [kind |-> "no extractor registered", ext |-> ext]

----------------------------------------------------------------------------
(* Bounds *)

\* longest list an extractor's SupportedExtensions() returns
MaxDecl == 2

----------------------------------------------------------------------------
(* Strings *)

UpperLetters == <<"A","B","C","D","E","F","G","H","I","J","K","L","M",
                  "N","O","P","Q","R","S","T","U","V","W","X","Y","Z">>
LowerLetters == <<"a","b","c","d","e","f","g","h","i","j","k","l","m",
                  "n","o","p","q","r","s","t","u","v","w","x","y","z">>

UpperSet == {UpperLetters[i] : i \in 1..Len(UpperLetters)}

\* the lower-case letter of each upper-case letter
LowerTable ==
    [c \in UpperSet |->
        LowerLetters[CHOOSE i \in 1..Len(UpperLetters) : UpperLetters[i] = c]]

\* unicode.ToLower on one character
ToLowerChar(c) == IF c \in UpperSet THEN LowerTable[c] ELSE c

\* strings.ToLower
ToLower(s) == [i \in 1..Len(s) |-> ToLowerChar(s[i])]

\* strings.HasPrefix
HasPrefix(s, prefix) ==
    /\ Len(s) >= Len(prefix)
    /\ SubSeq(s, 1, Len(prefix)) = prefix

Dot == <<".">>

----------------------------------------------------------------------------
(* Registry *)

\* the extractor objects that exist (compared by identity)
Extractors == {"x1", "x2"}

\* extensions as extractors declare them
RawExts == { <<"A">>, <<".", "a">>, <<"b">> }

\* keys callers look up
LookupKeys == RawExts \cup { <<"a">>, <<".", "A">>, <<".", "B">>, <<"c">>, <<>> }

SeqsUpTo(S, n) == UNION { [1..k -> S] : k \in 0..n }

DeclLists == SeqsUpTo(RawExts, MaxDecl)

\* Register, lines 36-39: the key an extension is stored under
NormalizeRegisterNoLower(ext) ==
    IF ~HasPrefix(ext, Dot) THEN Dot \o ext ELSE ext

NormalizeRegister(ext) ==
    LET lower == ToLower(ext)
    IN  IF ~HasPrefix(lower, Dot) THEN Dot \o lower ELSE lower

\* Get, lines 53-56: the key an extension is looked up under
NormalizeGetNoLower(extension) ==
    IF ~HasPrefix(extension, Dot) THEN Dot \o extension ELSE extension

NormalizeGet(extension) ==
    LET lower == ToLower(extension)
    IN  IF ~HasPrefix(lower, Dot) THEN Dot \o lower ELSE lower

\* NewRegistry: an empty map
NewRegistry == << >>

Bound(reg) == DOMAIN reg

\* r.extractors[ext] = extractor
MapPut(reg, ext, x) ==
    [e \in (DOMAIN reg) \cup {ext} |-> IF e = ext THEN x ELSE reg[e]]

\* One iteration of Register's loop (lines 36-43) on the i-th declared
\* extension: [reg, err], err the error it returns or Nil.
RegisterIterOverwrite(reg, x, rawExt) ==
    [reg |-> MapPut(reg, NormalizeRegister(rawExt), x), err |-> Nil]

RegisterIterSameOk(reg, x, rawExt) ==
    LET ext == NormalizeRegister(rawExt)
    IN  IF ext \in DOMAIN reg /\ reg[ext] # x
        THEN [reg |-> reg, err |-> ErrAlreadyRegistered(ext)]
        ELSE [reg |-> MapPut(reg, ext, x), err |-> Nil]

RegisterIter(reg, x, rawExt) ==
    LET ext == NormalizeRegister(rawExt)
    IN  IF ext \in DOMAIN reg
        THEN [reg |-> reg, err |-> ErrAlreadyRegistered(ext)]
        ELSE [reg |-> MapPut(reg, ext, x), err |-> Nil]

\* The loop of Register (lines 35-45) from the i-th declared extension on:
\* [reg, err, k], k the index of the extension it failed on (0: none).
RECURSIVE RegisterLoop(_, _, _, _)
RegisterLoopNoReturn(reg, x, exts, i) ==
    IF i > Len(exts) THEN [reg |-> reg, err |-> Nil, k |-> 0]
    ELSE LET it == RegisterIter(reg, x, exts[i])
             rest == RegisterLoop(it.reg, x, exts, i + 1)
         IN  IF it.err # Nil
             THEN [reg |-> rest.reg, err |-> it.err, k |-> i]
             ELSE rest

RegisterLoopCheckFirst(reg, x, exts, i) ==
    LET taken == { j \in i..Len(exts) : NormalizeRegister(exts[j]) \in DOMAIN reg }
    IN  IF i > Len(exts) THEN [reg |-> reg, err |-> Nil, k |-> 0]
        ELSE IF taken # {}
        THEN LET j == CHOOSE j \in taken : \A h \in taken : j <= h
             IN  [reg |-> reg,
                  err |-> ErrAlreadyRegistered(NormalizeRegister(exts[j])),
                  k |-> j]
        ELSE RegisterLoop(MapPut(reg, NormalizeRegister(exts[i]), x),
                          x, exts, i + 1)

RegisterLoop(reg, x, exts, i) ==
    IF i > Len(exts) THEN [reg |-> reg, err |-> Nil, k |-> 0]
    ELSE LET it == RegisterIter(reg, x, exts[i])
         IN  IF it.err # Nil
             THEN [reg |-> it.reg, err |-> it.err, k |-> i]
             ELSE RegisterLoop(it.reg, x, exts, i + 1)

\* Get, lines 53-62, on the map: [extractor, err]
GetResultBoth(reg, extension) ==
    LET ext == NormalizeGet(extension)
    IN  IF ext \notin DOMAIN reg
        THEN [extractor |-> CHOOSE x \in Extractors : TRUE, err |-> ErrNoExtractor(ext)]
        ELSE [extractor |-> reg[ext], err |-> Nil]

GetResult(reg, extension) ==
    LET ext == NormalizeGet(extension)
    IN  IF ext \notin DOMAIN reg
        THEN [extractor |-> None, err |-> ErrNoExtractor(ext)]
        ELSE [extractor |-> reg[ext], err |-> Nil]

\* GetSupportedExtensions, lines 70-74: the keys (their order is the map's
\* iteration order and is not modelled)
SupportedExtensionsOf(reg) == DOMAIN reg

----------------------------------------------------------------------------
(* Registry calls made one at a time                                       *)

\* the goroutines that call the registry concurrently
Procs == {"p1", "p2"}

Idle == [op |-> "idle"]

Init ==
    /\ registry = NewRegistry
    /\ supported \in [Extractors -> DeclLists]
    /\ mu = [writer |-> None, readers |-> {}]
    /\ pc = [p \in Procs |-> Idle]
    /\ backend = NoBackend
    /\ last = [op |-> "init"]

\* the bindings that calls of Register which failed have left behind, as
\* [ext, x]: the part of the map's history the later calls are held against
Leftover == IF "leftover" \in DOMAIN last THEN last.leftover ELSE {}

\* Registry.Register(extractor), lines 31-46
Register(x) ==
    LET r == RegisterLoop(registry, x, supported[x], 1)
    IN  /\ registry' = r.reg
        /\ last' = [op |-> "Register", x |-> x, err |-> r.err, k |-> r.k,
                    pre |-> registry, post |-> r.reg,
                    leftover |->
                        IF r.err = Nil THEN Leftover
                        ELSE Leftover \cup
                             { [ext |-> e, x |-> x] :
                                 e \in (DOMAIN r.reg) \ (DOMAIN registry) }]
        /\ UNCHANGED <<backend, supported, mu, pc>>

\* Registry.Get(extension), lines 49-63
Get(extension) ==
    LET r == GetResult(registry, extension)
    IN  /\ last' = [op |-> "Get", extension |-> extension,
                    extractor |-> r.extractor, err |-> r.err,
                    reg |-> registry, committed |-> registry,
                    leftover |-> Leftover]
        /\ UNCHANGED <<backend, registry, supported, mu, pc>>

\* Registry.GetSupportedExtensions(), lines 66-75
GetSupportedExtensions ==
    /\ last' = [op |-> "GetSupportedExtensions",
                extensions |-> SupportedExtensionsOf(registry),
                reg |-> registry, committed |-> registry,
                leftover |-> Leftover]
    /\ UNCHANGED <<backend, registry, supported, mu, pc>>

Next ==
    \/ \E x \in Extractors : Register(x)
    \/ \E extension \in LookupKeys : Get(extension)
    \/ GetSupportedExtensions

Spec == Init /\ [][Next]_vars

----------------------------------------------------------------------------
(* Registry calls made concurrently: Register's loop runs one iteration    *)
(* at a time between r.mu.Lock() and the deferred r.mu.Unlock(); Get and   *)
(* GetSupportedExtensions read between r.mu.RLock() and r.mu.RUnlock().    *)

\* r.mu.Lock() (line 32) returns: no writer and no reader holds the lock
LockAcquiredNoWait(m) == TRUE

LockAcquired(m) == m.writer = None /\ m.readers = {}

\* r.mu.RLock() (lines 50, 67) returns: no writer holds the lock
RLockAcquiredNoWait(m) == TRUE

RLockAcquired(m) == m.writer = None

\* the registry as the last completed Register call left it
Committed ==
    IF \E q \in Procs : pc[q].op = "Register"
    THEN pc[CHOOSE q \in Procs : pc[q].op = "Register"].pre
    ELSE registry

\* Register, lines 32-35: take the write lock, query the extensions
RegisterLock(p, x) ==
    /\ pc[p] = Idle
    /\ LockAcquired(mu)
    /\ mu' = [mu EXCEPT !.writer = p]
    /\ pc' = [pc EXCEPT ![p] = [op |-> "Register", x |-> x,
                                exts |-> supported[x], i |-> 1,
                                pre |-> registry]]
    /\ UNCHANGED <<backend, registry, supported, last>>

\* Register, lines 36-43: one iteration; the error return unlocks
RegisterIteration(p) ==
    /\ pc[p].op = "Register"
    /\ pc[p].i <= Len(pc[p].exts)
    /\ LET it == RegisterIter(registry, pc[p].x, pc[p].exts[pc[p].i])
       IN  IF it.err # Nil
           THEN /\ mu' = [mu EXCEPT !.writer = None]
                /\ pc' = [pc EXCEPT ![p] = Idle]
                /\ last' = [op |-> "Register", x |-> pc[p].x, err |-> it.err,
                            k |-> pc[p].i, pre |-> pc[p].pre, post |-> registry]
                /\ UNCHANGED <<backend, registry, supported>>
           ELSE /\ registry' = it.reg
                /\ pc' = [pc EXCEPT ![p].i = @ + 1]
                /\ UNCHANGED <<backend, supported, mu, last>>

\* Register, line 45: return nil, unlocking
RegisterReturn(p) ==
    /\ pc[p].op = "Register"
    /\ pc[p].i > Len(pc[p].exts)
    /\ mu' = [mu EXCEPT !.writer = None]
    /\ pc' = [pc EXCEPT ![p] = Idle]
    /\ last' = [op |-> "Register", x |-> pc[p].x, err |-> Nil, k |-> 0,
                pre |-> pc[p].pre, post |-> registry]
    /\ UNCHANGED <<backend, registry, supported>>

\* Get, line 50: take the read lock
GetRLock(p, extension) ==
    /\ pc[p] = Idle
    /\ RLockAcquired(mu)
    /\ mu' = [mu EXCEPT !.readers = @ \cup {p}]
    /\ pc' = [pc EXCEPT ![p] = [op |-> "Get", extension |-> extension]]
    /\ UNCHANGED <<backend, registry, supported, last>>

\* Get, lines 53-62: look the key up and return, unlocking
GetReturn(p) ==
    /\ pc[p].op = "Get"
    /\ LET r == GetResult(registry, pc[p].extension)
       IN  last' = [op |-> "Get", extension |-> pc[p].extension,
                    extractor |-> r.extractor, err |-> r.err,
                    reg |-> registry, committed |-> Committed]
    /\ mu' = [mu EXCEPT !.readers = @ \ {p}]
    /\ pc' = [pc EXCEPT ![p] = Idle]
    /\ UNCHANGED <<backend, registry, supported>>

\* GetSupportedExtensions, line 67: take the read lock
GetSupportedExtensionsRLock(p) ==
    /\ pc[p] = Idle
    /\ RLockAcquired(mu)
    /\ mu' = [mu EXCEPT !.readers = @ \cup {p}]
    /\ pc' = [pc EXCEPT ![p] = [op |-> "GetSupportedExtensions"]]
    /\ UNCHANGED <<backend, registry, supported, last>>

\* GetSupportedExtensions, lines 70-74: collect the keys and return
GetSupportedExtensionsReturn(p) ==
    /\ pc[p].op = "GetSupportedExtensions"
    /\ last' = [op |-> "GetSupportedExtensions",
                extensions |-> SupportedExtensionsOf(registry),
                reg |-> registry, committed |-> Committed]
    /\ mu' = [mu EXCEPT !.readers = @ \ {p}]
    /\ pc' = [pc EXCEPT ![p] = Idle]
    /\ UNCHANGED <<backend, registry, supported>>

NextConcurrent ==
    \/ \E p \in Procs, x \in Extractors : RegisterLock(p, x)
    \/ \E p \in Procs : RegisterIteration(p)
    \/ \E p \in Procs : RegisterReturn(p)
    \/ \E p \in Procs, extension \in RawExts : GetRLock(p, extension)
    \/ \E p \in Procs : GetReturn(p)
    \/ \E p \in Procs : GetSupportedExtensionsRLock(p)
    \/ \E p \in Procs : GetSupportedExtensionsReturn(p)

SpecConcurrent == Init /\ [][NextConcurrent]_vars

----------------------------------------------------------------------------
(* The default registry (extractor.go) *)

\* the extractors init() registers, in its order (lines 33-43)
BuiltinOrder == <<"pdf", "image", "docx", "pptx", "rtf", "odt", "html",
                  "markdown", "epub", "excel", "svg">>

\* SupportedExtensions() of each built-in extractor
BuiltinSupported ==
    "pdf" :> << <<".", "p", "d", "f">> >>
    @@ "image" :> << <<".", "j", "p", "g">>, <<".", "j", "p", "e", "g">>, <<".", "p", "n", "g">>, <<".", "g", "i", "f">>, <<".", "b", "m", "p">>, <<".", "t", "i", "f", "f">>, <<".", "t", "i", "f">>, <<".", "w", "e", "b", "p">> >>
    @@ "docx" :> << <<".", "d", "o", "c", "x">> >>
    @@ "pptx" :> << <<".", "p", "p", "t", "x">> >>
    @@ "rtf" :> << <<".", "r", "t", "f">> >>
    @@ "odt" :> << <<".", "o", "d", "t">> >>
    @@ "html" :> << <<".", "h", "t", "m", "l">>, <<".", "h", "t", "m">> >>
    @@ "markdown" :> << <<".", "m", "d">>, <<".", "m", "a", "r", "k", "d", "o", "w", "n">> >>
    @@ "epub" :> << <<".", "e", "p", "u", "b">> >>
    @@ "excel" :> << <<".", "x", "l", "s", "x">>, <<".", "x", "l", "s", "m">> >>
    @@ "svg" :> << <<".", "s", "v", "g">> >>

\* init(), lines 33-43: Register each in turn, the errors discarded
RECURSIVE RegisterAll(_, _, _, _)
RegisterAllButLast(reg, sup, order, i) ==
    IF i >= Len(order) THEN reg
    ELSE RegisterAll(RegisterLoop(reg, order[i], sup[order[i]], 1).reg,
                     sup, order, i + 1)

RegisterAll(reg, sup, order, i) ==
    IF i > Len(order) THEN reg
    ELSE RegisterAll(RegisterLoop(reg, order[i], sup[order[i]], 1).reg,
                     sup, order, i + 1)

\* DefaultRegistry after package initialisation
DefaultRegistry == RegisterAll(NewRegistry, BuiltinSupported, BuiltinOrder, 1)

----------------------------------------------------------------------------
(* Files and text extraction (extractor.go) *)

TxtExt == <<".", "t", "x", "t">>

\* the paths callers pass
Paths == { <<"n", ".", "t", "x", "t">>,
           <<"n", ".", "T", "X", "T">>,
           <<"n", ".", "p", "d", "f">>,
           <<"n", ".", "P", "D", "F">>,
           <<"n", ".", "h", "t", "m">>,
           <<"n", ".", "x", "y", "z">>,
           <<"n">>,
           <<"d", ".", "m", "d", "/", "n">> }

\* the texts a file or an extractor yields
Texts == {"", "text"}

\* filepath.Ext: the suffix from the last dot of the last path element
RECURSIVE ExtFrom(_, _)
ExtFrom(path, i) ==
    IF i < 1 THEN << >>
    ELSE IF path[i] = "/" THEN << >>
    ELSE IF path[i] = "." THEN SubSeq(path, i, Len(path))
    ELSE ExtFrom(path, i - 1)

Ext(path) == ExtFrom(path, Len(path))

\* errors wrap their cause (fmt.Errorf with %w)
Err(msg) == [kind |-> msg]
Wrap(msg, cause) == [kind |-> msg, cause |-> cause]

\* what the file system and the extractor do in one call:
\* [readable, text, extractFails]
FileEnvs == [readable : BOOLEAN, text : Texts, extractFails : BOOLEAN]

\* ExtractText, lines 55-56
PathExtNoLower(path) == Ext(path)

PathExt(path) == ToLower(Ext(path))

\* ExtractText, lines 48-90: [text, err, lookups, extracted]; lookups counts
\* the DefaultRegistry.Get calls, extracted tells whether an extractor ran
ExtractTextNoFastPath(reg, path, env) ==
    LET ext == PathExt(path)
        got == GetResult(reg, ext)
    IN  IF got.err # Nil
        THEN [text |-> "", err |-> Err("unsupported file type"),
              lookups |-> 1, extracted |-> FALSE]
        ELSE IF env.extractFails \/ ~env.readable
        THEN [text |-> "", err |-> Err("extractor error"),
              lookups |-> 1, extracted |-> TRUE]
        ELSE [text |-> env.text, err |-> Nil, lookups |-> 1, extracted |-> TRUE]

ExtractTextResult(reg, path, env) ==
    LET ext == PathExt(path)
    IN  IF ext = TxtExt
        THEN IF ~env.readable
             THEN [text |-> "", err |-> Err("read error"),
                   lookups |-> 0, extracted |-> FALSE]
             ELSE [text |-> env.text, err |-> Nil,
                   lookups |-> 0, extracted |-> FALSE]
        ELSE LET got == GetResult(reg, ext)
             IN  IF got.err # Nil
                 THEN [text |-> "", err |-> Err("unsupported file type"),
                       lookups |-> 1, extracted |-> FALSE]
                 ELSE IF env.extractFails \/ ~env.readable
                 THEN [text |-> "", err |-> Err("extractor error"),
                       lookups |-> 1, extracted |-> TRUE]
                 ELSE [text |-> env.text, err |-> Nil,
                       lookups |-> 1, extracted |-> TRUE]

----------------------------------------------------------------------------
(* Classifier backends (pkg/classifier) *)

\* ModelConfig.Parameters, by what the code reads of it: a nil map, a map
\* without "max_tokens", one with an int, one with a float64 "max_tokens"
ParameterMaps == {"nil", "empty", "max_tokens:int", "max_tokens:float64"}

\* ModelConfig: [APIKey, Endpoint, Model, Parameters]
ModelConfigs == [APIKey : {"", "key"}, Endpoint : {"", "http://endpoint"},
                 Model : {"", "model"}, Parameters : ParameterMaps]

\* Provider values: the four constants and one that is none of them
Providers == {"openai", "azure", "anthropic", "custom", "gemini"}

\* os.Getenv("OPENAI_API_KEY")
Environs == {"", "env-key"}

DefaultOpenAIEndpoint == "https://api.openai.com/v1/chat/completions"
DefaultOpenAIModel == "gpt-3.5-turbo"
DefaultAnthropicEndpoint == "https://api.anthropic.com/v1/messages"
DefaultAnthropicModel == "claude-3-opus-20240229"

\* NewGPTClassifier
NewGPTClassifier(config, environ) ==
    [variant |-> "gpt",
     apiKey |-> IF config.APIKey = "" THEN environ ELSE config.APIKey,
     model |-> IF config.Model = "" THEN DefaultOpenAIModel ELSE config.Model,
     endpoint |-> IF config.Endpoint = "" THEN DefaultOpenAIEndpoint
                  ELSE config.Endpoint,
     parameters |-> config.Parameters]

\* NewAzureClassifier
NewAzureClassifier(config) ==
    [variant |-> "azure", apiKey |-> config.APIKey, model |-> config.Model,
     endpoint |-> config.Endpoint, parameters |-> config.Parameters]

\* NewAnthropicClassifier
NewAnthropicClassifier(config) ==
    [variant |-> "anthropic", apiKey |-> config.APIKey,
     model |-> IF config.Model = "" THEN DefaultAnthropicModel
               ELSE config.Model,
     endpoint |-> IF config.Endpoint = "" THEN DefaultAnthropicEndpoint
                  ELSE config.Endpoint,
     parameters |-> config.Parameters]

\* NewCustomClassifier
NewCustomClassifier(config) ==
    [variant |-> "custom", apiKey |-> config.APIKey, model |-> config.Model,
     endpoint |-> config.Endpoint, parameters |-> config.Parameters]

\* NewClassifier: [clf, err]
NewClassifier(provider, config, environ) ==
    [clf |-> CASE provider = "openai" -> NewGPTClassifier(config, environ)
               [] provider = "azure" -> NewAzureClassifier(config)
               [] provider = "anthropic" -> NewAnthropicClassifier(config)
               [] provider = "custom" -> NewCustomClassifier(config)
               [] OTHER -> NewGPTClassifier(config, environ),
     err |-> Nil]

\* categories, as the caller lists them and as a backend replies
Tech == <<"T", "e", "c", "h">>
TechLower == <<"t", "e", "c", "h">>
Finance == <<"F", "i", "n", "a", "n", "c", "e">>
FinanceUpper == <<"F", "I", "N", "A", "N", "C", "E">>
Sports == <<"S", "p", "o", "r", "t", "s">>
EmptyObject == <<"{", "}">>

\* ClassificationOptions.Categories
CategoryLists == { << >>, <<Tech, Finance>>, <<TechLower, Tech>>, <<Finance>> }

\* the "category" a well-formed reply carries ("" when it has none)
ReplyCategories == {TechLower, Tech, FinanceUpper, Sports, << >>, EmptyObject}

\* What the backend does with one request: the transport fails, or it
\* answers [status, envelopeOk, vendorMsg, choices, parsable, category]:
\* envelopeOk: the body decodes as the vendor's response JSON; vendorMsg: its
\* error.message; choices: how many choices / content blocks it holds;
\* parsable: the reply text decodes as a Classification, with this category.
TransportError == [kind |-> "transport error"]

HttpReply(status, envelopeOk, vendorMsg, choices, parsable, category) ==
    [kind |-> "http", status |-> status, envelopeOk |-> envelopeOk,
     vendorMsg |-> vendorMsg, choices |-> choices, parsable |-> parsable,
     category |-> category]

Replies ==
    {TransportError}
    \cup {HttpReply(500, FALSE, "", 0, FALSE, << >>),
          HttpReply(500, TRUE, "", 0, FALSE, << >>),
          HttpReply(500, TRUE, "quota exceeded", 0, FALSE, << >>),
          HttpReply(200, FALSE, "", 0, FALSE, << >>),
          HttpReply(200, TRUE, "", 0, FALSE, << >>),
          HttpReply(200, TRUE, "", 1, FALSE, << >>)}
    \cup {HttpReply(200, TRUE, "", 1, TRUE, c) : c \in ReplyCategories}

\* strings.EqualFold
EqualFold(s, u) ==
    /\ Len(s) = Len(u)
    /\ \A i \in 1..Len(s) : ToLowerChar(s[i]) = ToLowerChar(u[i])

\* *Classification: nil, or the decoded reply
NilClassification == [isNil |-> TRUE]
Classification(category) ==
    [isNil |-> FALSE, Category |-> category, Summary |-> "summary"]

\* what a ClassifyWithOptions call returns and did:
\* [cls, err, sent, decoded, panicked]; sent: the requests handed to
\* client.Do; decoded: the category json.Unmarshal produced, if it ran
Outcome(cls, err, sent, decoded) ==
    [cls |-> cls, err |-> err, sent |-> sent, decoded |-> decoded,
     panicked |-> FALSE]

NotDecoded == [ok |-> FALSE]
Decoded(category) == [ok |-> TRUE, category |-> category]

Panic == [cls |-> NilClassification, err |-> Nil, sent |-> << >>,
          decoded |-> NotDecoded, panicked |-> TRUE]

\* the prompt: the allow-list it enumerates and the text it embeds
Prompt(content, options) == [categories |-> options, text |-> content]

\* GPTClassifier.ClassifyWithOptions, lines 270-287: category validation against the
\* allow-list from its i-th entry on: [valid, category]
RECURSIVE GPTValidateFrom(_, _, _)
GPTValidateFrom(category, categories, i) ==
    IF i > Len(categories) THEN [valid |-> FALSE, category |-> category]
    ELSE IF EqualFold(category, categories[i])
    THEN [valid |-> TRUE, category |-> categories[i]]
    ELSE GPTValidateFrom(category, categories, i + 1)

GPTValidateKeepCase(category, categories) ==
    [valid |-> GPTValidateFrom(category, categories, 1).valid,
     category |-> category]

GPTValidateCoerce(category, categories) ==
    LET v == GPTValidateFrom(category, categories, 1)
    IN  IF v.valid \/ Len(categories) = 0 THEN v
        ELSE [valid |-> TRUE, category |-> categories[1]]

GPTValidate(category, categories) ==
    GPTValidateFrom(category, categories, 1)

\* GPTClassifier.ClassifyWithOptions from the decoded Classification on
GPTFinish(category, options, sent) ==
    IF Len(options) > 0
    THEN LET v == GPTValidate(category, options)
         IN  IF ~v.valid
             THEN Outcome(NilClassification,
                          Err("classifier returned invalid category"),
                          sent, Decoded(category))
             ELSE Outcome(Classification(v.category), Nil, sent,
                          Decoded(category))
    ELSE Outcome(Classification(category), Nil, sent, Decoded(category))

\* GPTClassifier.ClassifyWithOptions, lines 262-268: json.Unmarshal of the
\* reply text failed; the error wraps the decoder's, the text is only logged
GPTParseFailedDefault(sent) ==
    Outcome(Classification(<< >>), Nil, sent, Decoded(<< >>))

GPTParseFailed(sent) ==
    Outcome(NilClassification,
            Wrap("error parsing classification", Err("json error")),
            sent, NotDecoded)

\* GPTClassifier.ClassifyWithOptions
GPTClassifyWithOptions(c, content, options, reply) ==
    IF c.apiKey = ""
    THEN Outcome(NilClassification, Err("OpenAI API key is required"),
                 << >>, NotDecoded)
    ELSE LET sent == << [url |-> c.endpoint, model |-> c.model,
                         auth |-> c.apiKey,
                         maxTokens |-> IF c.parameters = "max_tokens:int"
                                       THEN "parameter" ELSE "default",
                         prompt |-> Prompt(content, options)] >>
         IN  IF reply.kind = "transport error"
             THEN Outcome(NilClassification, Err("error making request"),
                          sent, NotDecoded)
             ELSE IF ~reply.envelopeOk
             THEN Outcome(NilClassification, Err("error decoding response"),
                          sent, NotDecoded)
             ELSE IF reply.status # 200
             THEN Outcome(NilClassification,
                          [kind |-> "API request failed",
                           message |-> IF reply.vendorMsg # ""
                                       THEN reply.vendorMsg
                                       ELSE "unknown error"],
                          sent, NotDecoded)
             ELSE IF reply.choices = 0
             THEN Outcome(NilClassification,
                          Err("no classification result received"),
                          sent, NotDecoded)
             ELSE IF ~reply.parsable
             THEN GPTParseFailed(sent)
             ELSE GPTFinish(reply.category, options, sent)

\* AzureClassifier.ClassifyWithOptions, lines 179-196: category validation against the
\* allow-list from its i-th entry on: [valid, category]
RECURSIVE AzureValidateFrom(_, _, _)
AzureValidateFrom(category, categories, i) ==
    IF i > Len(categories) THEN [valid |-> FALSE, category |-> category]
    ELSE IF EqualFold(category, categories[i])
    THEN [valid |-> TRUE, category |-> categories[i]]
    ELSE AzureValidateFrom(category, categories, i + 1)

AzureValidateKeepCase(category, categories) ==
    [valid |-> AzureValidateFrom(category, categories, 1).valid,
     category |-> category]

AzureValidateCoerce(category, categories) ==
    LET v == AzureValidateFrom(category, categories, 1)
    IN  IF v.valid \/ Len(categories) = 0 THEN v
        ELSE [valid |-> TRUE, category |-> categories[1]]

AzureValidate(category, categories) ==
    AzureValidateFrom(category, categories, 1)

\* AzureClassifier.ClassifyWithOptions from the decoded Classification on
AzureFinish(category, options, sent) ==
    IF Len(options) > 0
    THEN LET v == AzureValidate(category, options)
         IN  IF ~v.valid
             THEN Outcome(NilClassification,
                          Err("classifier returned invalid category"),
                          sent, Decoded(category))
             ELSE Outcome(Classification(v.category), Nil, sent,
                          Decoded(category))
    ELSE Outcome(Classification(category), Nil, sent, Decoded(category))

\* AzureClassifier.ClassifyWithOptions, lines 171-177: json.Unmarshal of the
\* reply text failed; the error wraps the decoder's, the text is only logged
AzureParseFailed(sent) ==
    Outcome(NilClassification,
            Wrap("error parsing classification", Err("json error")),
            sent, NotDecoded)

\* AzureClassifier.ClassifyWithOptions
AzureClassifyWithOptions(c, content, options, reply) ==
    IF c.endpoint = ""
    THEN Outcome(NilClassification, Err("Azure endpoint URL is required"),
                 << >>, NotDecoded)
    ELSE LET sent == << [url |-> c.endpoint, model |-> c.model,
                         auth |-> c.apiKey, parameters |-> c.parameters,
                         prompt |-> Prompt(content, options)] >>
         IN  IF reply.kind = "transport error"
             THEN Outcome(NilClassification, Err("error making request"),
                          sent, NotDecoded)
             ELSE IF reply.status # 200
             THEN Outcome(NilClassification,
                          [kind |-> "API request failed with status",
                           status |-> reply.status],
                          sent, NotDecoded)
             ELSE IF ~reply.envelopeOk
             THEN Outcome(NilClassification, Err("error decoding response"),
                          sent, NotDecoded)
             ELSE IF reply.choices = 0
             THEN Outcome(NilClassification,
                          Err("no classification result received"),
                          sent, NotDecoded)
             ELSE IF ~reply.parsable
             THEN AzureParseFailed(sent)
             ELSE AzureFinish(reply.category, options, sent)

\* AnthropicClassifier.ClassifyWithOptions, lines 190-207: category validation against the
\* allow-list from its i-th entry on: [valid, category]
RECURSIVE AnthropicValidateFrom(_, _, _)
AnthropicValidateFrom(category, categories, i) ==
    IF i > Len(categories) THEN [valid |-> FALSE, category |-> category]
    ELSE IF EqualFold(category, categories[i])
    THEN [valid |-> TRUE, category |-> categories[i]]
    ELSE AnthropicValidateFrom(category, categories, i + 1)

AnthropicValidateKeepCase(category, categories) ==
    [valid |-> AnthropicValidateFrom(category, categories, 1).valid,
     category |-> category]

AnthropicValidateCoerce(category, categories) ==
    LET v == AnthropicValidateFrom(category, categories, 1)
    IN  IF v.valid \/ Len(categories) = 0 THEN v
        ELSE [valid |-> TRUE, category |-> categories[1]]

AnthropicValidate(category, categories) ==
    AnthropicValidateFrom(category, categories, 1)

\* AnthropicClassifier.ClassifyWithOptions from the decoded Classification on
AnthropicFinish(category, options, sent) ==
    IF Len(options) > 0
    THEN LET v == AnthropicValidate(category, options)
         IN  IF ~v.valid
             THEN Outcome(NilClassification,
                          Err("classifier returned invalid category"),
                          sent, Decoded(category))
             ELSE Outcome(Classification(v.category), Nil, sent,
                          Decoded(category))
    ELSE Outcome(Classification(category), Nil, sent, Decoded(category))

\* AnthropicClassifier.ClassifyWithOptions, lines 182-188: json.Unmarshal of the
\* reply text failed; the error wraps the decoder's, the text is only logged
AnthropicParseFailed(sent) ==
    Outcome(NilClassification,
            Wrap("error parsing classification", Err("json error")),
            sent, NotDecoded)

\* AnthropicClassifier.ClassifyWithOptions; line 133 asserts that
\* parameters["max_tokens"] is an int and panics when it is not
AnthropicClassifyWithOptions(c, content, options, reply) ==
    IF c.apiKey = ""
    THEN Outcome(NilClassification, Err("Anthropic API key is required"),
                 << >>, NotDecoded)
    ELSE IF c.parameters # "max_tokens:int"
    THEN Panic
    ELSE LET sent == << [url |-> DefaultAnthropicEndpoint, model |-> c.model,
                         auth |-> c.apiKey, maxTokens |-> "parameter",
                         prompt |-> Prompt(content, options)] >>
         IN  IF reply.kind = "transport error"
             THEN Outcome(NilClassification, Err("error making request"),
                          sent, NotDecoded)
             ELSE IF reply.status # 200
             THEN Outcome(NilClassification,
                          [kind |-> "API request failed with status",
                           status |-> reply.status],
                          sent, NotDecoded)
             ELSE IF ~reply.envelopeOk
             THEN Outcome(NilClassification, Err("error decoding response"),
                          sent, NotDecoded)
             ELSE IF reply.choices = 0
             THEN Outcome(NilClassification,
                          Err("no classification result received"),
                          sent, NotDecoded)
             ELSE IF ~reply.parsable
             THEN AnthropicParseFailed(sent)
             ELSE AnthropicFinish(reply.category, options, sent)

\* CustomClassifier.ClassifyWithOptions, lines 474-491: category validation against the
\* allow-list from its i-th entry on: [valid, category]
RECURSIVE CustomValidateFrom(_, _, _)
CustomValidateFrom(category, categories, i) ==
    IF i > Len(categories) THEN [valid |-> FALSE, category |-> category]
    ELSE IF EqualFold(category, categories[i])
    THEN [valid |-> TRUE, category |-> categories[i]]
    ELSE CustomValidateFrom(category, categories, i + 1)

CustomValidateKeepCase(category, categories) ==
    [valid |-> CustomValidateFrom(category, categories, 1).valid,
     category |-> category]

CustomValidateCoerce(category, categories) ==
    LET v == CustomValidateFrom(category, categories, 1)
    IN  IF v.valid \/ Len(categories) = 0 THEN v
        ELSE [valid |-> TRUE, category |-> categories[1]]

CustomValidate(category, categories) ==
    CustomValidateFrom(category, categories, 1)

\* CustomClassifier.ClassifyWithOptions from the decoded Classification on
CustomFinish(category, options, sent) ==
    IF Len(options) > 0
    THEN LET v == CustomValidate(category, options)
         IN  IF ~v.valid
             THEN Outcome(NilClassification,
                          Err("classifier returned invalid category"),
                          sent, Decoded(category))
             ELSE Outcome(Classification(v.category), Nil, sent,
                          Decoded(category))
    ELSE Outcome(Classification(category), Nil, sent, Decoded(category))

\* CustomClassifier.ClassifyWithOptions, lines 466-472: json.Unmarshal of the
\* reply text failed; the error wraps the decoder's, the text is only logged
CustomParseFailed(sent) ==
    Outcome(NilClassification,
            Wrap("error parsing classification", Err("json error")),
            sent, NotDecoded)

\* CustomClassifier.ClassifyWithOptions; the reply text is the "content"
\* field of the body, empty (and so unparsable) when the body has none
CustomClassifyWithOptions(c, content, options, reply) ==
    IF c.endpoint = ""
    THEN Outcome(NilClassification, Err("Custom endpoint URL is required"),
                 << >>, NotDecoded)
    ELSE LET sent == << [url |-> c.endpoint, model |-> c.model,
                         auth |-> c.apiKey, parameters |-> c.parameters,
                         prompt |-> Prompt(content, options)] >>
         IN  IF reply.kind = "transport error"
             THEN Outcome(NilClassification, Err("error making request"),
                          sent, NotDecoded)
             ELSE IF reply.status # 200
             THEN Outcome(NilClassification,
                          [kind |-> "API request failed with status",
                           status |-> reply.status],
                          sent, NotDecoded)
             ELSE IF ~reply.envelopeOk
             THEN Outcome(NilClassification, Err("error decoding response"),
                          sent, NotDecoded)
             ELSE IF reply.choices = 0 \/ ~reply.parsable
             THEN CustomParseFailed(sent)
             ELSE CustomFinish(reply.category, options, sent)

\* Classifier.ClassifyWithOptions, dispatched on the backend's type
ClassifyWithOptions(c, content, options, reply) ==
    CASE c.variant = "gpt" -> GPTClassifyWithOptions(c, content, options, reply)
      [] c.variant = "azure" -> AzureClassifyWithOptions(c, content, options, reply)
      [] c.variant = "anthropic" -> AnthropicClassifyWithOptions(c, content, options, reply)
      [] c.variant = "custom" -> CustomClassifyWithOptions(c, content, options, reply)

\* Classifier.Classify: ClassifyWithOptions with no categories
Classify(c, content, reply) == ClassifyWithOptions(c, content, << >>, reply)

----------------------------------------------------------------------------
(* The pipeline (extractor.go, features) *)

\* what a call hands the backend as content: the text, after the feature
\* prompt when there is one
Content(instructions, text) == [instructions |-> instructions, text |-> text]

\* *ExtractResult: nil, or [Text, Classification]
NilResult == [isNil |-> TRUE]
ExtractResult(text, classification) ==
    [isNil |-> FALSE, Text |-> text, Classification |-> classification]

\* *DocumentFeatures: nil, or the decoded features
NilFeatures == [isNil |-> TRUE]
DocumentFeatures(source) == [isNil |-> FALSE, source |-> source]

\* the configurations pipeline callers pass
PipelineConfigs ==
    { c \in ModelConfigs :
        c.Model = "model" /\ c.Parameters \in {"nil", "max_tokens:int"} }

\* what the file system and the extractor do in one call
PipelineFileEnvs ==
    { e \in FileEnvs : (~e.readable \/ e.extractFails) => e.text = "" }

\* ExtractAndClassifyWithOptions, lines 110-114, the error return
ExtractionFailedKeepText(x) ==
    [result |-> ExtractResult(x.text, NilClassification),
     err |-> Wrap("text extraction failed", x.err),
     text |-> [ok |-> FALSE], lookups |-> x.lookups, constructed |-> 0,
     calls |-> 0, sent |-> << >>, decoded |-> NotDecoded, panicked |-> FALSE]

ExtractionFailed(x) ==
    [result |-> NilResult, err |-> Wrap("text extraction failed", x.err),
     text |-> [ok |-> FALSE], lookups |-> x.lookups, constructed |-> 0,
     calls |-> 0, sent |-> << >>, decoded |-> NotDecoded, panicked |-> FALSE]

\* ExtractAndClassifyWithOptions, lines 127-131, the error return
ClassificationFailedKeepText(x, out) ==
    [result |-> ExtractResult(x.text, NilClassification),
     err |-> Wrap("classification failed", out.err),
     text |-> [ok |-> TRUE, text |-> x.text], lookups |-> x.lookups,
     constructed |-> 1, calls |-> 1, sent |-> out.sent,
     decoded |-> out.decoded, panicked |-> FALSE]

ClassificationFailedRetry(x, out) ==
    [result |-> NilResult, err |-> Wrap("classification failed", out.err),
     text |-> [ok |-> TRUE, text |-> x.text], lookups |-> x.lookups,
     constructed |-> 1, calls |-> 2, sent |-> out.sent \o out.sent,
     decoded |-> out.decoded, panicked |-> FALSE]

ClassificationFailed(x, out) ==
    [result |-> NilResult, err |-> Wrap("classification failed", out.err),
     text |-> [ok |-> TRUE, text |-> x.text], lookups |-> x.lookups,
     constructed |-> 1, calls |-> 1, sent |-> out.sent,
     decoded |-> out.decoded, panicked |-> FALSE]

\* ExtractAndClassifyWithOptions, lines 133-143, the successful return
ClassificationSucceededTrimmed(x, out) ==
    [result |-> ExtractResult("", out.cls), err |-> Nil,
     text |-> [ok |-> TRUE, text |-> x.text], lookups |-> x.lookups,
     constructed |-> 1, calls |-> 1, sent |-> out.sent,
     decoded |-> out.decoded, panicked |-> FALSE]

ClassificationSucceeded(x, out) ==
    [result |-> ExtractResult(x.text, out.cls), err |-> Nil,
     text |-> [ok |-> TRUE, text |-> x.text], lookups |-> x.lookups,
     constructed |-> 1, calls |-> 1, sent |-> out.sent,
     decoded |-> out.decoded, panicked |-> FALSE]

\* ExtractAndClassifyWithOptions, lines 98-144:
\* [result, err, text, lookups, constructed, calls, sent, decoded, panicked];
\* text: what ExtractText produced; constructed: NewClassifier calls; calls:
\* ClassifyWithOptions calls; sent: backend requests; panicked: the call
\* never returned
ExtractAndClassifyWithOptionsClassifyFirst(reg, path, provider, config, options, environ, fenv, reply) ==
    LET x == ExtractTextResult(reg, path, fenv)
        new == NewClassifier(provider, config, environ)
        out == ClassifyWithOptions(new.clf, Content("", x.text), options, reply)
    IN  IF x.err # Nil
        THEN [ExtractionFailed(x) EXCEPT !.constructed = 1, !.calls = 1,
                                         !.sent = out.sent]
        ELSE IF out.panicked
        THEN [result |-> NilResult, err |-> Nil,
              text |-> [ok |-> TRUE, text |-> x.text], lookups |-> x.lookups,
              constructed |-> 1, calls |-> 1, sent |-> << >>,
              decoded |-> NotDecoded, panicked |-> TRUE]
        ELSE IF out.err # Nil
        THEN ClassificationFailed(x, out)
        ELSE ClassificationSucceeded(x, out)

ExtractAndClassifyWithOptionsResult(reg, path, provider, config, options, environ, fenv, reply) ==
    LET x == ExtractTextResult(reg, path, fenv)
    IN  IF x.err # Nil
        THEN ExtractionFailed(x)
        ELSE LET new == NewClassifier(provider, config, environ)
             IN  IF new.err # Nil
                 THEN [result |-> NilResult,
                       err |-> Wrap("failed to create classifier", new.err),
                       text |-> [ok |-> TRUE, text |-> x.text],
                       lookups |-> x.lookups, constructed |-> 0,
                       calls |-> 0, sent |-> << >>, decoded |-> NotDecoded,
                       panicked |-> FALSE]
                 ELSE LET out == ClassifyWithOptions(new.clf,
                                     Content("", x.text), options, reply)
                      IN  IF out.panicked
                          THEN [result |-> NilResult, err |-> Nil,
                                text |-> [ok |-> TRUE, text |-> x.text],
                                lookups |-> x.lookups, constructed |-> 1,
                                calls |-> 1, sent |-> << >>,
                                decoded |-> NotDecoded, panicked |-> TRUE]
                          ELSE IF out.err # Nil
                          THEN ClassificationFailed(x, out)
                          ELSE ClassificationSucceeded(x, out)

\* ExtractAndClassify, lines 93-95
ExtractAndClassifyResult(reg, path, provider, config, environ, fenv, reply) ==
    ExtractAndClassifyWithOptionsResult(reg, path, provider, config, << >>,
                                        environ, fenv, reply)

\* ExtractFeatures, lines 231-234: the prompt of the provider, OpenAI's
\* when it has none
FeaturePrompt(provider) ==
    IF provider \in {"openai", "anthropic", "azure"} THEN provider
    ELSE "openai"

\* json.Unmarshal of a reply's category into DocumentFeatures succeeds on
\* a JSON object only
ParsesAsFeatures(category) == category = EmptyObject

\* ExtractFeatures, lines 216-255:
\* [features, err, constructed, calls, sent, panicked]
ExtractFeaturesResult(text, provider, config, environ, reply) ==
    LET new == NewClassifier(provider, config, environ)
    IN  IF new.err # Nil
        THEN [features |-> NilFeatures,
              err |-> Wrap("failed to create classifier", new.err),
              constructed |-> 0, calls |-> 0, sent |-> << >>, panicked |-> FALSE]
        ELSE LET out == Classify(new.clf,
                                 Content(FeaturePrompt(provider), text), reply)
             IN  IF out.panicked
                 THEN [features |-> NilFeatures, err |-> Nil,
                       constructed |-> 1, calls |-> 1, sent |-> << >>, panicked |-> TRUE]
                 ELSE IF out.err # Nil
                 THEN [features |-> NilFeatures,
                       err |-> Wrap("model analysis failed", out.err),
                       constructed |-> 1, calls |-> 1, sent |-> out.sent,
                       panicked |-> FALSE]
                 ELSE IF ~ParsesAsFeatures(out.cls.Category)
                 THEN [features |-> NilFeatures,
                       err |-> Err("failed to parse model response"),
                       constructed |-> 1, calls |-> 1, sent |-> out.sent,
                       panicked |-> FALSE]
                 ELSE [features |-> DocumentFeatures(out.cls.Category),
                       err |-> Nil, constructed |-> 1, calls |-> 1, sent |-> out.sent,
                       panicked |-> FALSE]

\* ExtractFeaturesAndClassify, lines 267-270: the first step decides
\* whether the second runs
FeaturesStepRuns(first) == first.err = Nil /\ ~first.panicked

\* ExtractFeaturesAndClassify, lines 273-276, the error return
FeaturesFailedDropResult(first, f) ==
    [first EXCEPT !.result = NilResult, !.err = f.err,
                  !.constructed = @ + f.constructed, !.calls = @ + f.calls,
                  !.sent = @ \o f.sent] @@ [features |-> NilFeatures]

FeaturesFailed(first, f) ==
    [first EXCEPT !.err = f.err,
                  !.constructed = @ + f.constructed, !.calls = @ + f.calls,
                  !.sent = @ \o f.sent] @@ [features |-> NilFeatures]

\* ExtractFeaturesAndClassify, lines 258-279: the fields of
\* ExtractAndClassifyWithOptions and [features]
ExtractFeaturesAndClassifyEager(reg, path, provider, config, environ, fenv, reply1, reply2) ==
    LET first == ExtractAndClassifyResult(reg, path, provider, config,
                                          environ, fenv, reply1)
    IN  IF ~first.text.ok \/ first.panicked
        THEN [first EXCEPT !.result = NilResult] @@ [features |-> NilFeatures]
        ELSE LET f == ExtractFeaturesResult(first.text.text, provider,
                                            config, environ, reply2)
             IN  IF first.err # Nil \/ f.panicked
                 THEN [first EXCEPT !.result = NilResult,
                                    !.panicked = f.panicked,
                                    !.constructed = @ + f.constructed,
                                    !.calls = @ + f.calls,
                                    !.sent = @ \o f.sent]
                      @@ [features |-> NilFeatures]
                 ELSE IF f.err # Nil
                 THEN FeaturesFailed(first, f)
                 ELSE [first EXCEPT !.constructed = @ + f.constructed,
                                    !.calls = @ + f.calls,
                                    !.sent = @ \o f.sent]
                      @@ [features |-> f.features]

ExtractFeaturesAndClassifyResult(reg, path, provider, config, environ, fenv, reply1, reply2) ==
    LET first == ExtractAndClassifyResult(reg, path, provider, config,
                                          environ, fenv, reply1)
    IN  IF ~FeaturesStepRuns(first)
        THEN [first EXCEPT !.result = NilResult] @@ [features |-> NilFeatures]
        ELSE LET f == ExtractFeaturesResult(first.result.Text, provider,
                                            config, environ, reply2)
             IN  IF f.panicked
                 THEN [first EXCEPT !.result = NilResult, !.panicked = TRUE,
                                    !.constructed = @ + f.constructed, !.calls = @ + f.calls]
                      @@ [features |-> NilFeatures]
                 ELSE IF f.err # Nil
                 THEN FeaturesFailed(first, f)
                 ELSE [first EXCEPT !.constructed = @ + f.constructed, !.calls = @ + f.calls,
                                    !.sent = @ \o f.sent]
                      @@ [features |-> f.features]

\* The archive an ODT extractor is given, by what Extract reads of it:
\* [zipOk, hasContent, contentOk, text]: zip.OpenReader succeeds; the
\* archive has a member content.xml; the member opens and unmarshals as
\* XML; the text of its paragraphs
OdtArchives ==
    { a \in [zipOk : BOOLEAN, hasContent : BOOLEAN, contentOk : BOOLEAN,
             text : Texts] :
        /\ a.hasContent => a.zipOk
        /\ a.contentOk => a.hasContent
        /\ a.text # "" => a.contentOk }

\* odt.Extractor.Extract: [text, err]; with no content.xml member line 47
\* returns the err of zip.OpenReader, which is nil there
OdtExtract(a) ==
    IF ~a.zipOk THEN [text |-> "", err |-> Err("zip error")]
    ELSE IF ~a.hasContent THEN [text |-> "", err |-> Nil]
    ELSE IF ~a.contentOk THEN [text |-> "", err |-> Err("xml error")]
    ELSE [text |-> a.text, err |-> Nil]

\* The archive an EPUB extractor is given:
\* [zipOk, hasContainer, containerOk, hasOpf, opfOk, text]: the archive has
\* META-INF/container.xml; it opens and decodes; the archive has the OPF
\* member it names; that opens and decodes; the text of the spine's files
EpubArchives ==
    { a \in [zipOk : BOOLEAN, hasContainer : BOOLEAN, containerOk : BOOLEAN,
             hasOpf : BOOLEAN, opfOk : BOOLEAN, text : Texts] :
        /\ a.hasContainer => a.zipOk
        /\ a.containerOk => a.hasContainer
        /\ a.hasOpf => a.containerOk
        /\ a.opfOk => a.hasOpf
        /\ a.text # "" => a.opfOk }

\* epub.Extractor.Extract: [text, err]; with no container.xml (line 57) or
\* no OPF member (line 81) it returns err, which is nil at both places
EpubExtract(a) ==
    IF ~a.zipOk THEN [text |-> "", err |-> Err("zip error")]
    ELSE IF ~a.hasContainer THEN [text |-> "", err |-> Nil]
    ELSE IF ~a.containerOk THEN [text |-> "", err |-> Err("xml error")]
    ELSE IF ~a.hasOpf THEN [text |-> "", err |-> Nil]
    ELSE IF ~a.opfOk THEN [text |-> "", err |-> Err("xml error")]
    ELSE [text |-> a.text, err |-> Nil]

\* the state a pipeline call starts from: the default registry as init()
\* left it, and no call made yet
InitPipeline ==
    /\ registry = DefaultRegistry
    /\ supported = BuiltinSupported
    /\ mu = [writer |-> None, readers |-> {}]
    /\ pc = [p \in Procs |-> Idle]
    /\ backend = NoBackend
    /\ last = [op |-> "init"]

\* the replies a call draws: one for each request it makes
NoReply == TransportError

\* ExtractText(path)
ExtractText ==
    /\ last.op = "init"
    /\ \E path \in Paths, fenv \in PipelineFileEnvs :
          LET r == ExtractTextResult(registry, path, fenv)
          IN  last' = [op |-> "ExtractText", path |-> path, fenv |-> fenv,
                       text |-> r.text, err |-> r.err, lookups |-> r.lookups,
                       extracted |-> r.extracted]
    /\ UNCHANGED <<backend, registry, supported, mu, pc>>

\* ExtractAndClassifyWithOptions(path, provider, config, options)
ExtractAndClassifyWithOptions ==
    /\ last.op = "init"
    /\ \E path \in Paths, provider \in Providers, config \in PipelineConfigs,
          options \in CategoryLists, fenv \in PipelineFileEnvs,
          environ \in Environs, reply \in Replies :
          LET r == ExtractAndClassifyWithOptionsResult(registry, path,
                       provider, config, options, environ, fenv, reply)
          IN  /\ Len(r.sent) = 0 => reply = NoReply
              /\ last' = [op |-> "ExtractAndClassifyWithOptions",
                          path |-> path, provider |-> provider,
                          config |-> config, options |-> options,
                          environ |-> environ, fenv |-> fenv,
                          replies |-> <<reply>>, features |-> NilFeatures]
                         @@ r
    /\ UNCHANGED <<backend, registry, supported, mu, pc>>

\* ExtractAndClassify(path, provider, config)
ExtractAndClassify ==
    /\ last.op = "init"
    /\ \E path \in Paths, provider \in Providers, config \in PipelineConfigs,
          fenv \in PipelineFileEnvs, environ \in Environs, reply \in Replies :
          LET r == ExtractAndClassifyResult(registry, path, provider, config,
                                            environ, fenv, reply)
          IN  /\ Len(r.sent) = 0 => reply = NoReply
              /\ last' = [op |-> "ExtractAndClassify",
                          path |-> path, provider |-> provider,
                          config |-> config, options |-> << >>,
                          environ |-> environ, fenv |-> fenv,
                          replies |-> <<reply>>, features |-> NilFeatures]
                         @@ r
    /\ UNCHANGED <<backend, registry, supported, mu, pc>>

\* ExtractFeaturesAndClassify(path, provider, config)
ExtractFeaturesAndClassify ==
    /\ last.op = "init"
    /\ \E path \in Paths, provider \in Providers, config \in PipelineConfigs,
          fenv \in PipelineFileEnvs, environ \in Environs, reply1 \in Replies :
          LET first == ExtractAndClassifyResult(registry, path, provider,
                           config, environ, fenv, reply1)
          IN  /\ Len(first.sent) = 0 => reply1 = NoReply
              /\ \E reply2 \in IF FeaturesStepRuns(first) THEN Replies
                               ELSE {NoReply} :
                    LET r == ExtractFeaturesAndClassifyResult(registry, path,
                                 provider, config, environ, fenv, reply1, reply2)
                    IN  /\ Len(r.sent) < 2 => reply2 = NoReply
                        /\ last' = [op |-> "ExtractFeaturesAndClassify",
                                    path |-> path, provider |-> provider,
                                    config |-> config, options |-> << >>,
                                    environ |-> environ, fenv |-> fenv,
                                    replies |-> <<reply1, reply2>>] @@ r
    /\ UNCHANGED <<backend, registry, supported, mu, pc>>

\* text, err := extractor.Extract(path), for the two archive formats
Extract ==
    /\ last.op = "init"
    /\ \/ \E a \in OdtArchives :
             last' = [op |-> "Extract", extractor |-> "odt", archive |-> a]
                     @@ OdtExtract(a)
       \/ \E a \in EpubArchives :
             last' = [op |-> "Extract", extractor |-> "epub", archive |-> a]
                     @@ EpubExtract(a)
    /\ UNCHANGED <<backend, registry, supported, mu, pc>>

\* one call is followed from the initial state: calls share no state
NextPipeline ==
    \/ ExtractText
    \/ ExtractAndClassifyWithOptions
    \/ ExtractAndClassify
    \/ ExtractFeaturesAndClassify
    \/ Extract

SpecPipeline == InitPipeline /\ [][NextPipeline]_vars

----------------------------------------------------------------------------
(* Constructing and reconfiguring a backend (pkg/classifier) *)

\* how many Configure calls a backend is followed through
MaxConfigure == 2

\* the configurations NewClassifier is called with
ConstructConfigs ==
    { c \in ModelConfigs : c.Parameters \in {"nil", "max_tokens:int"} }

\* the configurations Configure is called with
ConfigureUpdates ==
    [APIKey : {"", "key2"}, Endpoint : {"", "http://other"},
     Model : {"", "model2"}, Parameters : {"nil", "empty", "max_tokens:int"}]

\* GPTClassifier.Configure: [clf, err]
GPTConfigureOverwrite(c, config) ==
    [clf |-> [c EXCEPT !.apiKey = config.APIKey,
                       !.endpoint = config.Endpoint,
                       !.model = config.Model,
                       !.parameters = config.Parameters],
     err |-> Nil]

GPTConfigure(c, config) ==
    [clf |-> [c EXCEPT
                !.apiKey = IF config.APIKey # "" THEN config.APIKey ELSE @,
                !.endpoint = IF config.Endpoint # "" THEN config.Endpoint ELSE @,
                !.model = IF config.Model # "" THEN config.Model ELSE @,
                !.parameters = IF config.Parameters # "nil"
                               THEN config.Parameters ELSE @],
     err |-> Nil]

\* AzureClassifier.Configure
AzureConfigure(c, config) ==
    [clf |-> [c EXCEPT
                !.apiKey = IF config.APIKey # "" THEN config.APIKey ELSE @,
                !.endpoint = IF config.Endpoint # "" THEN config.Endpoint ELSE @,
                !.model = IF config.Model # "" THEN config.Model ELSE @,
                !.parameters = IF config.Parameters # "nil"
                               THEN config.Parameters ELSE @],
     err |-> Nil]

\* AnthropicClassifier.Configure
AnthropicConfigure(c, config) ==
    [clf |-> [c EXCEPT
                !.apiKey = IF config.APIKey # "" THEN config.APIKey ELSE @,
                !.endpoint = IF config.Endpoint # "" THEN config.Endpoint ELSE @,
                !.model = IF config.Model # "" THEN config.Model ELSE @,
                !.parameters = IF config.Parameters # "nil"
                               THEN config.Parameters ELSE @],
     err |-> Nil]

\* CustomClassifier.Configure
CustomConfigure(c, config) ==
    [clf |-> [c EXCEPT
                !.apiKey = IF config.APIKey # "" THEN config.APIKey ELSE @,
                !.endpoint = IF config.Endpoint # "" THEN config.Endpoint ELSE @,
                !.model = IF config.Model # "" THEN config.Model ELSE @,
                !.parameters = IF config.Parameters # "nil"
                               THEN config.Parameters ELSE @],
     err |-> Nil]

\* Classifier.Configure, dispatched on the backend's type
ConfigureResult(c, config) ==
    CASE c.variant = "gpt" -> GPTConfigure(c, config)
      [] c.variant = "azure" -> AzureConfigure(c, config)
      [] c.variant = "anthropic" -> AnthropicConfigure(c, config)
      [] c.variant = "custom" -> CustomConfigure(c, config)

\* the provider names a caller passes to ProviderFromString
ProviderNames ==
    { <<"o", "p", "e", "n", "a", "i">>, <<"O", "p", "e", "n", "A", "I">>,
      <<"a", "n", "t", "h", "r", "o", "p", "i", "c">>,
      <<"A", "N", "T", "H", "R", "O", "P", "I", "C">>,
      <<"a", "z", "u", "r", "e">>, <<"A", "z", "u", "r", "e">>,
      <<"c", "u", "s", "t", "o", "m">>, <<"C", "u", "s", "t", "o", "m">>,
      <<"g", "e", "m", "i", "n", "i">>, << >> }

\* the switch of ProviderFromString on the string as given
ProviderFromStringNoLower(provider) ==
    CASE provider = <<"o", "p", "e", "n", "a", "i">> -> "openai"
      [] provider = <<"a", "n", "t", "h", "r", "o", "p", "i", "c">> ->
             "anthropic"
      [] provider = <<"a", "z", "u", "r", "e">> -> "azure"
      [] OTHER -> "openai"

\* ProviderFromString
ProviderFromStringResult(provider) ==
    LET lower == ToLower(provider)
    IN  CASE lower = <<"o", "p", "e", "n", "a", "i">> -> "openai"
          [] lower = <<"a", "n", "t", "h", "r", "o", "p", "i", "c">> ->
                 "anthropic"
          [] lower = <<"a", "z", "u", "r", "e">> -> "azure"
          [] OTHER -> "openai"

InitConfigure ==
    /\ registry = NewRegistry
    /\ supported = [x \in Extractors |-> << >>]
    /\ mu = [writer |-> None, readers |-> {}]
    /\ pc = [p \in Procs |-> Idle]
    /\ backend = NoBackend
    /\ last = [op |-> "init"]

\* clf, err := NewClassifier(provider, config)
NewBackend ==
    /\ backend = NoBackend
    /\ \E provider \in Providers, config \in ConstructConfigs,
          environ \in Environs :
          LET new == NewClassifier(provider, config, environ)
          IN  /\ backend' = new.clf
              /\ last' = [op |-> "NewClassifier", provider |-> provider,
                          config |-> config, environ |-> environ,
                          err |-> new.err, n |-> 0]
    /\ UNCHANGED <<registry, supported, mu, pc>>

\* err := clf.Configure(config)
Configure ==
    /\ backend # NoBackend
    /\ last.n < MaxConfigure
    /\ \E config \in ConfigureUpdates :
          LET r == ConfigureResult(backend, config)
          IN  /\ backend' = r.clf
              /\ last' = [op |-> "Configure", pre |-> backend,
                          config |-> config, err |-> r.err,
                          n |-> last.n + 1]
    /\ UNCHANGED <<registry, supported, mu, pc>>

\* provider := ProviderFromString(name)
ProviderFromString ==
    /\ last.op = "init"
    /\ \E name \in ProviderNames :
          last' = [op |-> "ProviderFromString", name |-> name,
                   provider |-> ProviderFromStringResult(name)]
    /\ UNCHANGED <<registry, supported, mu, pc, backend>>

NextConfigure ==
    \/ NewBackend
    \/ Configure
    \/ ProviderFromString

SpecConfigure == InitConfigure /\ [][NextConfigure]_vars

----------------------------------------------------------------------------
(* The model catalog (models.go) and the comparison helpers (utils.go) *)

\* float64 values, taken as exact fractions in lowest terms
RECURSIVE Gcd(_, _)
Gcd(a, b) == IF b = 0 THEN a ELSE Gcd(b, a % b)

Abs(n) == IF n < 0 THEN 0 - n ELSE n

Rat(n, d) ==
    LET g == Gcd(Abs(n), d)
    IN  [num |-> n \div g, den |-> d \div g]

Float(n) == Rat(n, 1)

RatAdd(x, y) ==
    LET l == (x.den \div Gcd(x.den, y.den)) * y.den
    IN  Rat(x.num * (l \div x.den) + y.num * (l \div y.den), l)

RatNeg(x) == [num |-> 0 - x.num, den |-> x.den]

RatSub(x, y) == RatAdd(x, RatNeg(y))

RatMul(x, y) == Rat(x.num * y.num, x.den * y.den)

\* x / y, for y > 0
RatDiv(x, y) == Rat(x.num * y.den, x.den * y.num)

\* x > y
RatGreater(x, y) == x.num * y.den > y.num * x.den

\* ModelType
GPT4 == "gpt-4"
GPT4Turbo == "gpt-4-turbo-preview"
GPT35Turbo == "gpt-3.5-turbo"
Claude3Opus == "claude-3-opus-20240229"
Claude3Sonnet == "claude-3-sonnet-20240229"
Claude3Haiku == "claude-3-haiku-20240229"

\* ModelCapability
GeneralPurpose == 0
HighAccuracy == 1
FastResponse == 2
LongContext == 3
CodeAnalysis == 4
MultilingualSupport == 5
StructuredOutput == 6
SemanticAnalysis == 7

\* ContentType
GeneralText == 0
TechnicalDoc == 1
CreativeWriting == 2
CodeSnippet == 3
LegalDocument == 4
AcademicPaper == 5
BusinessReport == 6
SocialMediaContent == 7

CostInfo(input, output) ==
    [InputPerThousandTokens |-> input, OutputPerThousandTokens |-> output]

ModelCosts ==
    [m \in {GPT4, GPT4Turbo, GPT35Turbo, Claude3Opus, Claude3Sonnet} |->
        CASE m = GPT4 -> CostInfo(Rat(3, 100), Rat(6, 100))
          [] m = GPT4Turbo -> CostInfo(Rat(1, 100), Rat(3, 100))
          [] m = GPT35Turbo -> CostInfo(Rat(1, 1000), Rat(2, 1000))
          [] m = Claude3Opus -> CostInfo(Rat(15, 1000), Rat(75, 1000))
          [] m = Claude3Sonnet -> CostInfo(Rat(3, 1000), Rat(15, 1000))]

ModelInfo(type, provider, capabilities, maxTokens, latency) ==
    [Type |-> type, Provider |-> provider, Capabilities |-> capabilities,
     MaxTokens |-> maxTokens, Cost |-> ModelCosts[type],
     AvgLatencyMs |-> latency]

ModelRegistry ==
    [m \in {GPT4, GPT35Turbo, Claude3Opus, Claude3Sonnet} |->
        CASE m = GPT4 ->
               ModelInfo(GPT4, "openai",
                         <<HighAccuracy, CodeAnalysis, LongContext,
                           StructuredOutput, MultilingualSupport>>,
                         8192, 2000)
          [] m = GPT35Turbo ->
               ModelInfo(GPT35Turbo, "openai",
                         <<GeneralPurpose, FastResponse,
                           MultilingualSupport>>,
                         4096, 800)
          [] m = Claude3Opus ->
               ModelInfo(Claude3Opus, "anthropic",
                         <<HighAccuracy, LongContext, CodeAnalysis,
                           SemanticAnalysis, StructuredOutput>>,
                         100000, 2500)
          [] m = Claude3Sonnet ->
               ModelInfo(Claude3Sonnet, "anthropic",
                         <<GeneralPurpose, FastResponse, SemanticAnalysis>>,
                         50000, 1000)]

\* the model identifiers a caller passes: the catalog's, two the package
\* names without listing them, and one it does not know
ModelTypes ==
    DOMAIN ModelRegistry \cup {GPT4Turbo, Claude3Haiku, "unknown-model"}

TokenCounts == {0, 1, 500, 1000, 1500}

\* EstimateCost with the token counts divided as integers
EstimateCostIntegerDivision(model, inputTokens, outputTokens) ==
    IF model \notin DOMAIN ModelRegistry THEN Float(0)
    ELSE LET info == ModelRegistry[model]
         IN  RatAdd(RatMul(Float(inputTokens \div 1000),
                           info.Cost.InputPerThousandTokens),
                    RatMul(Float(outputTokens \div 1000),
                           info.Cost.OutputPerThousandTokens))

\* EstimateCost
EstimateCostResult(model, inputTokens, outputTokens) ==
    IF model \notin DOMAIN ModelRegistry THEN Float(0)
    ELSE LET info == ModelRegistry[model]
             inputCost ==
                 RatDiv(RatMul(Float(inputTokens),
                               info.Cost.InputPerThousandTokens),
                        Float(1000))
             outputCost ==
                 RatDiv(RatMul(Float(outputTokens),
                               info.Cost.OutputPerThousandTokens),
                        Float(1000))
         IN  RatAdd(inputCost, outputCost)

\* the orders a range over a map of capabilities visits its keys in: Go
\* leaves the order open; every key is visited once
CapabilityOrders ==
    { <<0, 1, 2, 3, 4, 5, 6, 7>>,
      <<7, 6, 5, 4, 3, 2, 1, 0>>,
      <<4, 1, 6, 3, 0, 7, 2, 5>> }

\* the set of the elements of a slice
Elems(s) == {s[i] : i \in 1..Len(s)}

\* for cap := range capMap { if keep[cap] { out = append(out, cap) } }
RECURSIVE RangeAppend(_, _, _, _)
RangeAppend(order, capMap, keep, i) ==
    IF i > Len(order) THEN << >>
    ELSE IF order[i] \in capMap /\ order[i] \in keep
    THEN <<order[i]>> \o RangeAppend(order, capMap, keep, i + 1)
    ELSE RangeAppend(order, capMap, keep, i + 1)

AllCapabilities == 0..7

NilComparison == [isNil |-> TRUE]

\* CompareModels with the second unique list taken from the first map
CompareModelsOneMap(model1, model2, order1, order2) ==
    IF model1 \notin DOMAIN ModelRegistry \/ model2 \notin DOMAIN ModelRegistry
    THEN [cmp |-> NilComparison, err |-> Err("one or both models not found")]
    ELSE LET info1 == ModelRegistry[model1]
             info2 == ModelRegistry[model2]
             capMap1 == Elems(info1.Capabilities)
             capMap2 == Elems(info2.Capabilities)
         IN  [cmp |->
                [isNil |-> FALSE,
                 CostDiff |-> RatSub(info1.Cost.InputPerThousandTokens,
                                     info2.Cost.InputPerThousandTokens),
                 LatencyDiff |-> info1.AvgLatencyMs - info2.AvgLatencyMs,
                 SharedCapabilities |->
                     RangeAppend(order1, capMap1, capMap2, 1),
                 UniqueToFirst |->
                     RangeAppend(order1, capMap1,
                                 AllCapabilities \ capMap2, 1),
                 UniqueToSecond |->
                     RangeAppend(order2, capMap1,
                                 AllCapabilities \ capMap2, 1),
                 TokenLimitDiff |-> info1.MaxTokens - info2.MaxTokens],
              err |-> Nil]

\* CompareModels; order1 and order2 are the orders its two range loops
\* visit capMap1 and capMap2 in
CompareModelsResult(model1, model2, order1, order2) ==
    IF model1 \notin DOMAIN ModelRegistry \/ model2 \notin DOMAIN ModelRegistry
    THEN [cmp |-> NilComparison, err |-> Err("one or both models not found")]
    ELSE LET info1 == ModelRegistry[model1]
             info2 == ModelRegistry[model2]
             capMap1 == Elems(info1.Capabilities)
             capMap2 == Elems(info2.Capabilities)
         IN  [cmp |->
                [isNil |-> FALSE,
                 CostDiff |-> RatSub(info1.Cost.InputPerThousandTokens,
                                     info2.Cost.InputPerThousandTokens),
                 LatencyDiff |-> info1.AvgLatencyMs - info2.AvgLatencyMs,
                 SharedCapabilities |->
                     RangeAppend(order1, capMap1, capMap2, 1),
                 UniqueToFirst |->
                     RangeAppend(order1, capMap1,
                                 AllCapabilities \ capMap2, 1),
                 UniqueToSecond |->
                     RangeAppend(order2, capMap2,
                                 AllCapabilities \ capMap1, 1),
                 TokenLimitDiff |-> info1.MaxTokens - info2.MaxTokens],
              err |-> Nil]

\* RecommendModel, lines 284-300: the capabilities a content type asks for
ContentTypeCapabilities(contentType) ==
    CASE contentType = TechnicalDoc -> <<CodeAnalysis, StructuredOutput>>
      [] contentType = CreativeWriting -> <<GeneralPurpose>>
      [] contentType = CodeSnippet -> <<CodeAnalysis>>
      [] contentType = LegalDocument -> <<HighAccuracy, SemanticAnalysis>>
      [] contentType = AcademicPaper -> <<HighAccuracy, LongContext>>
      [] contentType = BusinessReport -> <<StructuredOutput, SemanticAnalysis>>
      [] contentType = SocialMediaContent -> <<FastResponse>>
      [] OTHER -> << >>

\* the content types of the package, and a value outside them
ContentTypes == 0..8

\* ModelConstraints
ModelConstraints ==
    [MaxCostPerThousandTokens :
        {Float(0), Rat(3, 1000), Rat(1, 100), Rat(3, 100)},
     MaxLatencyMs : {0, 999, 1000, 2500},
     RequiredCapabilities :
        { << >>, <<HighAccuracy>>, <<FastResponse, FastResponse>>,
          <<SemanticAnalysis, GeneralPurpose>> },
     MinTokenLimit : {0, 8192, 8193, 100001}]

\* the orders a range over ModelRegistry visits its keys in
RegistryOrders ==
    { <<GPT4, GPT35Turbo, Claude3Opus, Claude3Sonnet>>,
      <<Claude3Sonnet, Claude3Opus, GPT35Turbo, GPT4>>,
      <<Claude3Opus, GPT4, Claude3Sonnet, GPT35Turbo>> }

\* RecommendModel, lines 319-333
HasAllCaps(info, requiredCaps) ==
    \A i \in 1..Len(requiredCaps) :
        \E j \in 1..Len(info.Capabilities) :
            info.Capabilities[j] = requiredCaps[i]

\* RecommendModel, lines 303-338, without the token limit check
RECURSIVE RecommendNoTokenLimit(_, _, _, _)
RecommendNoTokenLimit(order, constraints, requiredCaps, i) ==
    IF i > Len(order) THEN << >>
    ELSE LET info == ModelRegistry[order[i]]
             rest == RecommendNoTokenLimit(order, constraints,
                                           requiredCaps, i + 1)
         IN  IF RatGreater(info.Cost.InputPerThousandTokens,
                           constraints.MaxCostPerThousandTokens)
             THEN rest
             ELSE IF info.AvgLatencyMs > constraints.MaxLatencyMs
             THEN rest
             ELSE IF HasAllCaps(info, requiredCaps)
             THEN <<order[i]>> \o rest
             ELSE rest

\* RecommendModel, lines 303-338: the loop over the catalog
RECURSIVE RecommendFrom(_, _, _, _)
RecommendFrom(order, constraints, requiredCaps, i) ==
    IF i > Len(order) THEN << >>
    ELSE LET info == ModelRegistry[order[i]]
             rest == RecommendFrom(order, constraints, requiredCaps, i + 1)
         IN  IF RatGreater(info.Cost.InputPerThousandTokens,
                           constraints.MaxCostPerThousandTokens)
             THEN rest
             ELSE IF info.AvgLatencyMs > constraints.MaxLatencyMs
             THEN rest
             ELSE IF info.MaxTokens < constraints.MinTokenLimit
             THEN rest
             ELSE IF HasAllCaps(info, requiredCaps)
             THEN <<order[i]>> \o rest
             ELSE rest

\* RecommendModel
RecommendModelResult(contentType, constraints, order) ==
    RecommendFrom(order, constraints,
                  constraints.RequiredCapabilities
                      \o ContentTypeCapabilities(contentType),
                  1)

\* white space, as strings.Fields sees it
Space == " "

\* strings.Fields: the maximal runs of non-space characters
RECURSIVE FieldsFrom(_, _, _)
FieldsFrom(s, i, word) ==
    IF i > Len(s)
    THEN IF word = << >> THEN << >> ELSE <<word>>
    ELSE IF s[i] = Space
    THEN IF word = << >> THEN FieldsFrom(s, i + 1, << >>)
         ELSE <<word>> \o FieldsFrom(s, i + 1, << >>)
    ELSE FieldsFrom(s, i + 1, Append(word, s[i]))

Fields(s) == FieldsFrom(s, 1, << >>)

\* freq[word]++ over a list of words
Freq(words) ==
    [w \in Elems(words) |-> Cardinality({i \in 1..Len(words) : words[i] = w})]

\* the sum of f over the keys in S
RECURSIVE SumOver(_, _)
SumOver(f, S) ==
    IF S = {} THEN 0
    ELSE LET k == CHOOSE k \in S : TRUE
         IN  f[k] + SumOver(f, S \ {k})

\* calculateSimilarity
calculateSimilarity(a, b) ==
    LET freqA == Freq(Fields(ToLower(a)))
        freqB == Freq(Fields(ToLower(b)))
        common == DOMAIN freqA \cap DOMAIN freqB
        dotProduct == SumOver([w \in common |-> freqA[w] * freqB[w]], common)
        magA == SumOver([w \in DOMAIN freqA |-> freqA[w] * freqA[w]],
                        DOMAIN freqA)
        magB == SumOver([w \in DOMAIN freqB |-> freqB[w] * freqB[w]],
                        DOMAIN freqB)
    IN  IF magA = 0 \/ magB = 0 THEN Float(0)
        ELSE RatDiv(Float(dotProduct), RatMul(Float(magA), Float(magB)))

\* calculateKeywordOverlap
calculateKeywordOverlap(a, b) ==
    IF Len(a) = 0 /\ Len(b) = 0 THEN Float(1)
    ELSE IF Len(a) = 0 \/ Len(b) = 0 THEN Float(0)
    ELSE LET setA == {ToLower(a[i]) : i \in 1..Len(a)}
             setB == {ToLower(b[i]) : i \in 1..Len(b)}
             intersection == Cardinality(setA \cap setB)
             union == Cardinality(setA) + Cardinality(setB) - intersection
         IN  RatDiv(Float(intersection), Float(union))

\* CompareClassifications
CompareClassificationsResult(a, b) ==
    [CategoryMatch |-> a.Category = b.Category,
     ConfidenceDiff |-> RatSub(a.Confidence, b.Confidence),
     KeywordOverlap |-> calculateKeywordOverlap(a.Keywords, b.Keywords),
     SummarySimilarity |-> calculateSimilarity(a.Summary, b.Summary)]

\* the summaries, keyword lists and classifications that are compared
Summaries ==
    { << >>, <<" ">>, <<"a">>, <<"A">>, <<"b">>,
      <<"a", " ", "b">>, <<"b", " ", " ", "A">>, <<"a", " ", "a">>,
      <<"a", "b", " ", "c">> }

KeywordLists ==
    { << >>, << <<"g", "o">> >>, << <<"G", "o">>, <<"a", "i">> >> }

ComparedClassifications ==
    [Category : {Tech, Finance},
     Confidence : {Rat(1, 2), Rat(9, 10)},
     Keywords : KeywordLists,
     Summary : Summaries]

InitCatalog ==
    /\ registry = NewRegistry
    /\ supported = [x \in Extractors |-> << >>]
    /\ mu = [writer |-> None, readers |-> {}]
    /\ pc = [p \in Procs |-> Idle]
    /\ backend = NoBackend
    /\ last = [op |-> "init"]

\* cost := EstimateCost(model, inputTokens, outputTokens)
EstimateCost ==
    /\ last.op = "init"
    /\ \E model \in ModelTypes, inputTokens \in TokenCounts,
          outputTokens \in TokenCounts :
          last' = [op |-> "EstimateCost", model |-> model,
                   inputTokens |-> inputTokens,
                   outputTokens |-> outputTokens,
                   cost |-> EstimateCostResult(model, inputTokens,
                                               outputTokens)]
    /\ UNCHANGED <<registry, supported, mu, pc, backend>>

\* cmp, err := CompareModels(model1, model2)
CompareModels ==
    /\ last.op = "init"
    /\ \E model1 \in ModelTypes, model2 \in ModelTypes,
          order1 \in CapabilityOrders, order2 \in CapabilityOrders :
          LET r == CompareModelsResult(model1, model2, order1, order2)
          IN  last' = [op |-> "CompareModels", model1 |-> model1,
                       model2 |-> model2, cmp |-> r.cmp, err |-> r.err]
    /\ UNCHANGED <<registry, supported, mu, pc, backend>>

\* models := RecommendModel(contentType, constraints)
RecommendModel ==
    /\ last.op = "init"
    /\ \E contentType \in ContentTypes, constraints \in ModelConstraints,
          order \in RegistryOrders :
          last' = [op |-> "RecommendModel", contentType |-> contentType,
                   constraints |-> constraints,
                   models |-> RecommendModelResult(contentType, constraints,
                                                   order)]
    /\ UNCHANGED <<registry, supported, mu, pc, backend>>

\* result := CompareClassifications(a, b)
CompareClassifications ==
    /\ last.op = "init"
    /\ \E a \in ComparedClassifications, b \in ComparedClassifications :
          last' = [op |-> "CompareClassifications", a |-> a, b |-> b,
                   result |-> CompareClassificationsResult(a, b)]
    /\ UNCHANGED <<registry, supported, mu, pc, backend>>

NextCatalog ==
    \/ EstimateCost
    \/ CompareModels
    \/ RecommendModel
    \/ CompareClassifications

SpecCatalog == InitCatalog /\ [][NextCatalog]_vars

----------------------------------------------------------------------------
(* Properties of the Registry *)

\* the extension the i-th declaration of extractor x is stored under
DeclaredKey(x, i) == NormalizeRegister(supported[x][i])

\* a key in registry form: lower case, with a leading dot
IsNormalized(e) == HasPrefix(e, Dot) /\ ToLower(e) = e

\* C1: every key of the registry is a normalized extension bound to one
\* extractor; a Register call leaves every binding it found in place, and
\* returns the already-registered error when its extractor declares an
\* extension that another extractor holds.
C1_OneExtractorPerExtension ==
    /\ \A e \in DOMAIN registry : IsNormalized(e) /\ registry[e] \in Extractors
    /\ last.op = "Register" =>
        /\ \A e \in DOMAIN last.pre :
              e \in DOMAIN last.post /\ last.post[e] = last.pre[e]
        /\ (\E i \in 1..Len(supported[last.x]) :
               /\ DeclaredKey(last.x, i) \in DOMAIN last.pre
               /\ last.pre[DeclaredKey(last.x, i)] # last.x)
           => last.err.kind = "already registered"

\* a Register call has failed on an extension held by another extractor,
\* which still holds it
C1_Witness ==
    /\ last.op = "Register"
    /\ last.err.kind = "already registered"
    /\ last.err.ext \in DOMAIN last.pre
    /\ last.pre[last.err.ext] # last.x
    /\ registry[last.err.ext] = last.pre[last.err.ext]

\* C2: while a goroutine is inside Get or GetSupportedExtensions no Register
\* call is between its first and last binding, so what a read returns is the
\* registry as some completed Register call left it: none or all of the
\* bindings of every call.
C2_NoPartialRegistrationRead ==
    /\ \A p \in Procs :
          pc[p].op \in {"Get", "GetSupportedExtensions"} =>
              /\ mu.writer = None
              /\ \A q \in Procs : pc[q].op # "Register"
              /\ registry = Committed
    /\ last.op \in {"Get", "GetSupportedExtensions"} => last.reg = last.committed
    /\ mu.writer # None => mu.readers = {}

\* two readers overlap after a Register call that bound several extensions
C2_Witness ==
    /\ \A p \in Procs : pc[p].op \in {"Get", "GetSupportedExtensions"}
    /\ Cardinality(mu.readers) = 2
    /\ \E x \in Extractors : Cardinality({e \in DOMAIN registry : registry[e] = x}) >= 2

\* C3: a Register call that fails on its k-th declared extension leaves
\* every extension it declares after the k-th, and had not processed before
\* it, as it was: bound to the same extractor, or unbound.
C3_FailedRegisterLeavesRest ==
    (last.op = "Register" /\ last.err # Nil) =>
        \A j \in (last.k + 1)..Len(supported[last.x]) :
            LET e == DeclaredKey(last.x, j)
            IN  (\A i \in 1..(last.k - 1) : DeclaredKey(last.x, i) # e) =>
                    /\ e \in DOMAIN last.post <=> e \in DOMAIN last.pre
                    /\ e \in DOMAIN last.pre => last.post[e] = last.pre[e]

\* a Register call failed before its last declared extension, which was
\* unbound and still is
C3_Witness ==
    /\ last.op = "Register"
    /\ last.err # Nil
    /\ last.k < Len(supported[last.x])
    /\ \E j \in (last.k + 1)..Len(supported[last.x]) :
          /\ DeclaredKey(last.x, j) \notin DOMAIN last.pre
          /\ DeclaredKey(last.x, j) \notin DOMAIN last.post

\* the call registers an extractor that holds every extension it declares
ReRegistration ==
    /\ last.op = "Register"
    /\ Len(supported[last.x]) > 0
    /\ \A i \in 1..Len(supported[last.x]) :
          /\ DeclaredKey(last.x, i) \in DOMAIN last.pre
          /\ last.pre[DeclaredKey(last.x, i)] = last.x

\* C4: registering the same extractor again for the same extensions
\* returns no error and leaves the mapping as the first call left it.
C4_ReRegisterIdempotent ==
    ReRegistration => (last.err = Nil /\ last.post = last.pre)

\* one leading dot removed
StripDot(s) == IF HasPrefix(s, Dot) THEN Tail(s) ELSE s

\* two spellings of one extension: equal up to letter case and a leading dot
SameExtension(r, s) == StripDot(ToLower(r)) = StripDot(ToLower(s))

\* the extensions, as declared, that the registry reg binds
RegisteredRaw(reg) ==
    { r \in RawExts : \E x \in Extractors : \E i \in 1..Len(supported[x]) :
          /\ supported[x][i] = r
          /\ DeclaredKey(x, i) \in DOMAIN reg
          /\ reg[DeclaredKey(x, i)] = x }

\* the extractor the registry reg binds the declared extension r to
BoundTo(reg, r) ==
    CHOOSE x \in Extractors : \E i \in 1..Len(supported[x]) :
          /\ supported[x][i] = r
          /\ DeclaredKey(x, i) \in DOMAIN reg
          /\ reg[DeclaredKey(x, i)] = x

\* C5: Get of any spelling (letter case, leading dot) of a registered
\* extension returns the extractor that extension was registered with.
C5_LookupNormalizesLikeRegister ==
    last.op = "Get" =>
        \A r \in RegisteredRaw(last.reg) :
            SameExtension(r, last.extension) =>
                last.err = Nil /\ last.extractor = BoundTo(last.reg, r)

\* a lookup spelled differently from the registration found the extractor
C5_Witness ==
    /\ last.op = "Get"
    /\ last.err = Nil
    /\ \E r \in RegisteredRaw(last.reg) :
          /\ SameExtension(r, last.extension)
          /\ r # last.extension
          /\ ToLower(r) # ToLower(last.extension)
          /\ last.extractor = BoundTo(last.reg, r)

\* C6: Get returns either the extractor bound to the normalized key (one
\* that declares it) and a nil error, or no extractor and the
\* no-extractor-registered error.
C6_GetExtractorXorError ==
    last.op = "Get" =>
        LET e == NormalizeGet(last.extension)
        IN  /\ e \in DOMAIN last.reg =>
                /\ last.err = Nil
                /\ last.extractor = last.reg[e]
                /\ \E i \in 1..Len(supported[last.extractor]) :
                      DeclaredKey(last.extractor, i) = e
            /\ e \notin DOMAIN last.reg =>
                /\ last.err.kind = "no extractor registered"
                /\ last.extractor = None
            /\ (last.err = Nil) # (last.extractor = None)

\* Get has failed on an unbound extension while another one is bound
C6_Witness ==
    /\ last.op = "Get"
    /\ last.err # Nil
    /\ last.extractor = None
    /\ DOMAIN last.reg # {}

----------------------------------------------------------------------------
(* Properties of the pipeline and the backends *)

\* the last call went through ExtractAndClassifyWithOptions
IsClassifyCall ==
    last.op \in {"ExtractAndClassifyWithOptions", "ExtractAndClassify",
                 "ExtractFeaturesAndClassify"}

\* the allow-list entries a category equals up to letter case
Matches(category, categories) ==
    { i \in 1..Len(categories) : EqualFold(category, categories[i]) }

\* the first of them
FirstMatch(category, categories) ==
    CHOOSE i \in Matches(category, categories) :
        \A j \in Matches(category, categories) : i <= j

\* the backend of the last call decoded a category under an allow-list
DecodedUnderAllowList ==
    /\ last.op = "ExtractAndClassifyWithOptions"
    /\ Len(last.options) > 0
    /\ last.decoded.ok

\* C7: with a non-empty allow-list and a decoded category that equals an
\* entry up to letter case, the call succeeds and the returned category is
\* that entry (the first such) in the allow-list's own casing, whichever
\* backend the provider selects.
C7_CategoryCanonicalized ==
    (DecodedUnderAllowList
     /\ Matches(last.decoded.category, last.options) # {}) =>
        /\ last.err = Nil
        /\ ~last.result.isNil
        /\ ~last.result.Classification.isNil
        /\ last.result.Classification.Category =
              last.options[FirstMatch(last.decoded.category, last.options)]
        /\ last.result.Classification.Category \in
              { last.options[i] : i \in 1..Len(last.options) }

\* allow-list {Tech, Finance}, reply "tech": the result says "Tech"
C7_Witness ==
    /\ DecodedUnderAllowList
    /\ last.provider = "anthropic"
    /\ last.options = <<Tech, Finance>>
    /\ last.decoded.category = TechLower
    /\ last.result.Classification.Category = Tech

\* C8: with a non-empty allow-list and a decoded category that equals no
\* entry up to letter case, the call fails with "classification failed"
\* wrapping the invalid-category error and returns no ExtractResult: no
\* text, no Classification, no category put in its place.
C8_InvalidCategoryFails ==
    (DecodedUnderAllowList
     /\ Matches(last.decoded.category, last.options) = {}) =>
        /\ last.err = Wrap("classification failed",
                           Err("classifier returned invalid category"))
        /\ last.result = NilResult

\* allow-list {Tech, Finance}, reply "Sports": the call fails
C8_Witness ==
    /\ DecodedUnderAllowList
    /\ last.options = <<Tech, Finance>>
    /\ last.decoded.category = Sports
    /\ last.text = [ok |-> TRUE, text |-> "text"]
    /\ last.err.kind = "classification failed"
    /\ last.result.isNil

\* C9: an entry point that returns an error returns no ExtractResult and
\* no features with it, whichever step failed.
C9_NoResultWithError ==
    (IsClassifyCall /\ last.err # Nil) =>
        (last.result.isNil /\ last.features.isNil)

\* what the code does instead: ExtractAndClassify and
\* ExtractAndClassifyWithOptions return no ExtractResult with an error;
\* ExtractFeaturesAndClassify returns no features with an error, and no
\* ExtractResult when extraction or classification failed, but when only
\* the feature analysis failed it returns the ExtractResult of the
\* classification together with the error.
FeatureFailureKeepsResult ==
    (IsClassifyCall /\ last.err # Nil) =>
        /\ last.features.isNil
        /\ last.op # "ExtractFeaturesAndClassify" => last.result.isNil
        /\ last.op = "ExtractFeaturesAndClassify" =>
              IF last.constructed < 2
              THEN last.result.isNil
              ELSE /\ ~last.result.isNil
                   /\ last.result.Text = last.text.text
                   /\ ~last.result.Classification.isNil

\* whether ExtractText fails on a path: an unreadable file, an extension
\* that is neither .txt nor registered, or a failing extractor
ExtractionFails(path, fenv) ==
    LET ext == ToLower(Ext(path))
    IN  IF ext = TxtExt THEN ~fenv.readable
        ELSE \/ ext \notin DOMAIN registry
             \/ fenv.extractFails
             \/ ~fenv.readable

\* C10: when extraction fails, ExtractAndClassifyWithOptions returns
\* "text extraction failed" wrapping the cause, constructs no classifier
\* and sends no request.
C10_ExtractionFailureShortCircuits ==
    (last.op = "ExtractAndClassifyWithOptions"
     /\ ExtractionFails(last.path, last.fenv)) =>
        /\ last.err.kind = "text extraction failed"
        /\ last.err.cause.kind \in
              {"read error", "unsupported file type", "extractor error"}
        /\ last.result = NilResult
        /\ last.constructed = 0
        /\ last.sent = << >>

\* an unsupported extension stopped a call whose backend was ready
C10_Witness ==
    /\ last.op = "ExtractAndClassifyWithOptions"
    /\ last.err = Wrap("text extraction failed", Err("unsupported file type"))
    /\ last.provider = "openai"
    /\ last.config.APIKey # ""
    /\ last.constructed = 0
    /\ last.sent = << >>

\* the reply the backend gave to the request of the last call
LastReply == last.replies[1]

\* the last call was ExtractAndClassifyWithOptions and sent its request
RequestSent ==
    /\ last.op = "ExtractAndClassifyWithOptions"
    /\ Len(last.sent) >= 1

\* the reply text reached json.Unmarshal and was not a Classification
UnparsableReply(reply) ==
    /\ reply.kind = "http"
    /\ reply.status = 200
    /\ reply.envelopeOk
    /\ reply.choices > 0
    /\ ~reply.parsable

\* a reply that makes the classification fail: transport, HTTP status,
\* decode, or a category outside the allow-list
ReplyFails(reply, options) ==
    \/ reply.kind = "transport error"
    \/ /\ reply.kind = "http"
       /\ \/ reply.status # 200
          \/ ~reply.envelopeOk
          \/ reply.choices = 0
          \/ ~reply.parsable
          \/ Len(options) > 0 /\ Matches(reply.category, options) = {}

\* C11: an ExtractAndClassifyWithOptions call invokes ClassifyWithOptions
\* at most once and sends at most one request; when the request fails
\* (transport, HTTP status, decode, invalid category) the call ends with
\* that error wrapped as "classification failed", still with one request.
C11_NoRetry ==
    last.op = "ExtractAndClassifyWithOptions" =>
        /\ last.calls <= 1
        /\ Len(last.sent) <= 1
        /\ Len(last.sent) <= last.calls
        /\ (RequestSent /\ ReplyFails(LastReply, last.options)) =>
              /\ last.err.kind = "classification failed"
              /\ last.err.cause # Nil
              /\ last.result = NilResult
              /\ last.calls = 1
              /\ Len(last.sent) = 1

\* a 500 from the backend ended the call after its one request
C11_Witness ==
    /\ RequestSent
    /\ LastReply.kind = "http"
    /\ LastReply.status = 500
    /\ last.err.kind = "classification failed"
    /\ last.calls = 1
    /\ Len(last.sent) = 1

\* the Classification the reply and the allow-list determine
ExpectedClassification(reply, options) ==
    Classification(IF Len(options) > 0
                   THEN options[FirstMatch(reply.category, options)]
                   ELSE reply.category)

\* C12: when extraction and classification both succeed,
\* ExtractAndClassifyWithOptions returns a nil error and a result whose Text
\* is the text extraction produced, the same text the backend was sent, and
\* whose Classification is the one the backend's reply decoded to.
C12_ResultHoldsBoth ==
    (RequestSent /\ last.text.ok /\ ~ReplyFails(LastReply, last.options)) =>
        /\ last.err = Nil
        /\ ~last.result.isNil
        /\ last.result.Text = last.fenv.text
        /\ last.result.Text = last.text.text
        /\ last.result.Text = last.sent[1].prompt.text.text
        /\ last.result.Classification =
              ExpectedClassification(LastReply, last.options)

\* a PDF was extracted and classified under an allow-list
C12_Witness ==
    /\ RequestSent
    /\ last.err = Nil
    /\ ToLower(Ext(last.path)) = <<".", "p", "d", "f">>
    /\ last.result.Text = "text"
    /\ last.options = <<Tech, Finance>>
    /\ last.result.Classification.Category = Finance

\* C13: a path whose extension is .txt in any letter case never reaches
\* the registry: no lookup is made and no extractor runs, in ExtractText
\* and in the pipeline calls; a readable file yields its content, and
\* ExtractText does so too over a registry with no extractor at all.
C13_TxtBypassesRegistry ==
    /\ ((last.op = "ExtractText" \/ IsClassifyCall)
        /\ ToLower(Ext(last.path)) = TxtExt) =>
          /\ last.lookups = 0
          /\ last.op = "ExtractText" =>
                /\ ~last.extracted
                /\ last.fenv.readable =>
                      (last.err = Nil /\ last.text = last.fenv.text)
          /\ last.op # "ExtractText" =>
                (last.fenv.readable <=> last.text.ok)
    /\ \A path \in Paths, fenv \in PipelineFileEnvs :
          (ToLower(Ext(path)) = TxtExt /\ fenv.readable) =>
              LET r == ExtractTextResult(NewRegistry, path, fenv)
              IN  r.err = Nil /\ r.text = fenv.text /\ r.lookups = 0

\* n.TXT was read without a registry lookup
C13_Witness ==
    /\ last.op = "ExtractText"
    /\ Ext(last.path) = <<".", "T", "X", "T">>
    /\ last.fenv.readable
    /\ last.text = "text"
    /\ last.err = Nil
    /\ last.lookups = 0

\* C14: when the reply text does not decode as a Classification, the call
\* fails with the parse error and returns no Classification and no result,
\* whichever backend the provider selects.
C14_DecodeFailureIsError ==
    (RequestSent /\ UnparsableReply(LastReply)) =>
        /\ last.err.kind = "classification failed"
        /\ last.err.cause.kind = "error parsing classification"
        /\ last.result = NilResult
        /\ ~last.decoded.ok

\* the OpenAI backend got a reply that is not JSON
C14_Witness ==
    /\ RequestSent
    /\ UnparsableReply(LastReply)
    /\ last.provider = "openai"
    /\ last.err.cause.kind = "error parsing classification"
    /\ last.result.isNil

\* whether an error, or one it wraps, carries the backend's raw payload
RECURSIVE CarriesPayload(_)
CarriesPayload(err) ==
    \/ "payload" \in DOMAIN err
    \/ "cause" \in DOMAIN err /\ CarriesPayload(err.cause)

\* C15: the error returned for a decode failure includes the backend's
\* raw, unparsed payload.
C15_DecodeErrorHasPayload ==
    (RequestSent /\ UnparsableReply(LastReply)) => CarriesPayload(last.err)

\* the backend the last call constructed
LastBackend == NewClassifier(last.provider, last.config, last.environ).clf

\* C18: ClassifyWithOptions on a backend without its API key or without
\* its endpoint fails with a configuration error before any request is
\* sent, whichever backend the provider selects.
C18_MissingConfigFailsFast ==
    (/\ last.op = "ExtractAndClassifyWithOptions"
     /\ last.calls = 1
     /\ LastBackend.apiKey = "" \/ LastBackend.endpoint = "") =>
        /\ ~last.panicked
        /\ last.sent = << >>
        /\ last.err.kind = "classification failed"
        /\ last.err.cause.kind \in
              {"OpenAI API key is required", "Anthropic API key is required",
               "Azure endpoint URL is required",
               "Custom endpoint URL is required"}

\* C19: a reply with a status other than 200 makes the call fail with an
\* error that carries the status code, and no Classification, whichever
\* backend the provider selects and whatever the body holds.
C19_StatusErrorCarriesCode ==
    (/\ RequestSent
     /\ LastReply.kind = "http"
     /\ LastReply.status # 200) =>
        /\ last.result = NilResult
        /\ last.err.kind = "classification failed"
        /\ "status" \in DOMAIN last.err.cause
        /\ last.err.cause.status = LastReply.status

----------------------------------------------------------------------------
(* Properties of backend construction and configuration *)

\* C16: Configure replaces exactly the fields its config gives (non-empty
\* apiKey, endpoint, model; non-nil parameters) and leaves every other
\* field as it was, for every backend variant and after any number of
\* Configure calls; with an all-empty config nothing changes.
C16_ConfigureMergesNonEmpty ==
    last.op = "Configure" =>
        /\ last.err = Nil
        /\ backend.variant = last.pre.variant
        /\ backend.apiKey = IF last.config.APIKey = ""
                            THEN last.pre.apiKey ELSE last.config.APIKey
        /\ backend.endpoint = IF last.config.Endpoint = ""
                              THEN last.pre.endpoint ELSE last.config.Endpoint
        /\ backend.model = IF last.config.Model = ""
                           THEN last.pre.model ELSE last.config.Model
        /\ backend.parameters = IF last.config.Parameters = "nil"
                                THEN last.pre.parameters
                                ELSE last.config.Parameters
        /\ (/\ last.config.APIKey = ""
            /\ last.config.Endpoint = ""
            /\ last.config.Model = ""
            /\ last.config.Parameters = "nil") => backend = last.pre

\* a second Configure with only an endpoint kept the key and the
\* parameters the first one had set
C16_Witness ==
    /\ last.op = "Configure"
    /\ last.n = 2
    /\ backend.variant = "anthropic"
    /\ last.config = [APIKey |-> "", Endpoint |-> "http://other",
                      Model |-> "", Parameters |-> "nil"]
    /\ last.pre.apiKey = "key2"
    /\ last.pre.parameters = "empty"
    /\ backend.apiKey = "key2"
    /\ backend.parameters = "empty"
    /\ backend.endpoint = "http://other"

\* C17: NewClassifier gives the backend of every provider a default
\* endpoint and a default model when the config has none, and an API key
\* from the process-wide credential when the config has none and the
\* credential is set.
C17_DefaultsForEveryProvider ==
    last.op = "NewClassifier" =>
        /\ last.config.Endpoint = "" => backend.endpoint # ""
        /\ last.config.Model = "" => backend.model # ""
        /\ (last.config.APIKey = "" /\ last.environ # "") =>
              backend.apiKey = last.environ

----------------------------------------------------------------------------
(* Properties of the archive extractors *)

\* a readable zip that lacks a member its format requires
LacksRequiredMember ==
    /\ last.op = "Extract"
    /\ last.archive.zipOk
    /\ \/ last.extractor = "odt" /\ ~last.archive.hasContent
       \/ last.extractor = "epub" /\ ~last.archive.hasContainer
       \/ last.extractor = "epub" /\ last.archive.containerOk
                                  /\ ~last.archive.hasOpf

\* C20: Extract of the ODT and EPUB extractors on a readable zip that
\* lacks its required member (content.xml; META-INF/container.xml or the
\* OPF file it names) returns an error, not an empty text.
C20_MalformedArchiveFails ==
    LacksRequiredMember => last.err # Nil

----------------------------------------------------------------------------
(* Registration failures *)

\* C26: Register applies partially and does not roll back: when it fails
\* on its k-th declared extension, each of the first k-1 that was unbound
\* before the call is bound to the new extractor after it; and every
\* binding a failed call left stays in the map, is what a later Get of
\* that extension returns and is among what GetSupportedExtensions lists.
C26_PartialApplyNoRollback ==
    /\ (last.op = "Register" /\ last.err # Nil) =>
          \A i \in 1..(last.k - 1) :
              LET key == NormalizeRegister(supported[last.x][i])
              IN  key \notin DOMAIN last.pre =>
                     /\ key \in DOMAIN last.post
                     /\ last.post[key] = last.x
    /\ last.op \in {"Register", "Get", "GetSupportedExtensions"} =>
          \A b \in Leftover :
              /\ b.ext \in DOMAIN registry
              /\ registry[b.ext] = b.x
              /\ (last.op = "Get" /\ NormalizeGet(last.extension) = b.ext) =>
                    (last.extractor = b.x /\ last.err = Nil)
              /\ last.op = "GetSupportedExtensions" =>
                    b.ext \in last.extensions

\* a Get after a failed two-extension Register returned the extractor the
\* failed call had bound to its first extension
C26_Witness ==
    /\ last.op = "Get"
    /\ last.err = Nil
    /\ \E b \in Leftover :
          /\ NormalizeGet(last.extension) = b.ext
          /\ last.extractor = b.x
          /\ Len(supported[b.x]) >= 2
          /\ NormalizeRegister(supported[b.x][1]) = b.ext

----------------------------------------------------------------------------
(* Properties of the backends' requests *)

\* C24: ClassifyWithOptions returns a Classification or an error for every
\* backend and every configuration, a nil parameters map or one without an
\* int "max_tokens" included; it never panics.
C24_ClassifyNeverPanics ==
    IsClassifyCall => ~last.panicked

\* C25: the request of a ClassifyWithOptions call goes to the endpoint the
\* backend is configured with, names its configured model and carries its
\* configured API key, whichever backend the provider selects.
C25_RequestUsesConfiguredValues ==
    RequestSent =>
        /\ last.sent[1].url = LastBackend.endpoint
        /\ last.sent[1].model = LastBackend.model
        /\ last.sent[1].auth = LastBackend.apiKey

----------------------------------------------------------------------------
(* The default registry *)

\* the normalized extensions each built-in extractor declares
BuiltinKeys ==
    [x \in DOMAIN BuiltinSupported |->
        { NormalizeRegister(BuiltinSupported[x][i]) :
            i \in 1..Len(BuiltinSupported[x]) }]

\* the error of each Register call of init(), made on the registry the
\* calls before it left
InitErrors ==
    [i \in 1..Len(BuiltinOrder) |->
        RegisterLoop(RegisterAll(NewRegistry, BuiltinSupported,
                                 SubSeq(BuiltinOrder, 1, i - 1), 1),
                     BuiltinOrder[i], BuiltinSupported[BuiltinOrder[i]], 1).err]

\* the built-in extractors declare pairwise-disjoint extensions
BuiltinsDisjoint ==
    \A x, y \in DOMAIN BuiltinSupported :
        x # y => BuiltinKeys[x] \cap BuiltinKeys[y] = {}

\* the built-in extractors declare disjoint extensions, no Register call
\* of init() fails, the registry binds each declared extension to its own
\* extractor and nothing else, and ".txt" is not bound
BuiltinsRegistered ==
    /\ BuiltinsDisjoint
    /\ \A i \in 1..Len(BuiltinOrder) : InitErrors[i] = Nil
    /\ DOMAIN registry = UNION { BuiltinKeys[x] : x \in DOMAIN BuiltinSupported }
    /\ \A x \in DOMAIN BuiltinSupported :
          \A e \in BuiltinKeys[x] : registry[e] = x
    /\ TxtExt \notin DOMAIN registry

\* C27: the eleven built-in extractors declare pairwise-disjoint
\* extensions, no init-time Register call fails, and DefaultRegistry then
\* binds exactly the 22 built-in extensions, each to its own extractor,
\* ".txt" not among them.
C27_DefaultRegistryHas22 ==
    /\ Len(BuiltinOrder) = 11
    /\ BuiltinsRegistered
    /\ Cardinality(DOMAIN registry) = 22

\* C27 as the code has it: the same, the built-in extensions being 21.
C27_DefaultRegistryHas21 ==
    /\ Len(BuiltinOrder) = 11
    /\ BuiltinsRegistered
    /\ Cardinality(DOMAIN registry) = 21

\* a lookup of .pdf went through the registry init() filled, in which
\* the last extractor registered holds its extension
C27_Witness ==
    /\ last.op = "ExtractText"
    /\ last.path = <<"n", ".", "p", "d", "f">>
    /\ last.lookups = 1
    /\ last.extracted
    /\ registry[<<".", "s", "v", "g">>] = "svg"
    /\ registry[<<".", "t", "i", "f">>] = "image"

----------------------------------------------------------------------------
(* The order of the steps of ExtractFeaturesAndClassify *)

\* C28: ExtractFeaturesAndClassify extracts, classifies, then analyses the
\* extracted text, each backend step on a classifier of its own: a second
\* request is made only after a classification that succeeded and carries
\* the feature prompt and the extracted text; none is made when extraction
\* or classification failed; a call that succeeds made exactly two.
C28_FeaturesAfterClassification ==
    last.op = "ExtractFeaturesAndClassify" =>
        /\ Len(last.sent) <= 2
        /\ last.constructed = last.calls
        /\ last.constructed <= 2
        /\ Len(last.sent) = 2 =>
              /\ last.text.ok
              /\ ~ReplyFails(last.replies[1], << >>)
              /\ last.constructed = 2
              /\ last.sent[1].prompt.text = Content("", last.text.text)
              /\ last.sent[2].prompt.text =
                    Content(FeaturePrompt(last.provider), last.text.text)
        /\ ~last.text.ok => (last.sent = << >> /\ last.constructed = 0)
        /\ (Len(last.sent) >= 1 /\ ReplyFails(last.replies[1], << >>)) =>
              (Len(last.sent) = 1 /\ last.constructed = 1)
        /\ last.err.kind \in {"text extraction failed", "classification failed"} =>
              (Len(last.sent) <= 1 /\ last.constructed <= 1)
        /\ (last.err = Nil /\ ~last.panicked) =>
              /\ Len(last.sent) = 2
              /\ last.constructed = 2
              /\ ~last.features.isNil
              /\ ~last.result.isNil

\* a call that succeeded, after two requests
C28_Witness ==
    /\ last.op = "ExtractFeaturesAndClassify"
    /\ last.err = Nil
    /\ ~last.panicked
    /\ Len(last.sent) = 2
    /\ last.constructed = 2
    /\ ~last.features.isNil
    /\ last.result.Text = "text"

----------------------------------------------------------------------------
(* Properties of the model catalog *)

\* C21: EstimateCost returns 0 for a model identifier that is not in the
\* catalog and, for a catalog model, inputTokens/1000 * inputRate +
\* outputTokens/1000 * outputRate; 1000 input and 1000 output tokens on an
\* entry priced 0.03 / 0.06 cost 0.09.
C21_EstimateCostFormula ==
    last.op = "EstimateCost" =>
        /\ last.model \notin DOMAIN ModelRegistry => last.cost = Float(0)
        /\ last.model \in DOMAIN ModelRegistry =>
              LET cost == ModelRegistry[last.model].Cost
              IN  /\ last.cost =
                        RatAdd(RatMul(Rat(last.inputTokens, 1000),
                                      cost.InputPerThousandTokens),
                               RatMul(Rat(last.outputTokens, 1000),
                                      cost.OutputPerThousandTokens))
                  /\ ( /\ last.inputTokens = 1000
                       /\ last.outputTokens = 1000
                       /\ cost.InputPerThousandTokens = Rat(3, 100)
                       /\ cost.OutputPerThousandTokens = Rat(6, 100) ) =>
                        last.cost = Rat(9, 100)

\* 1500 input and 500 output tokens on the entry priced 0.03 / 0.06
C21_Witness ==
    /\ last.op = "EstimateCost"
    /\ last.model = GPT4
    /\ last.inputTokens = 1500
    /\ last.outputTokens = 500
    /\ last.cost = Rat(75, 1000)

\* the capability set of a catalog model
Caps(model) == Elems(ModelRegistry[model].Capabilities)

\* C22: CompareModels is anti-symmetric on catalog models: the call with
\* the arguments swapped has costDiff, latencyDiff and tokenLimitDiff
\* negated, the two unique capability sets exchanged and the same shared
\* set; shared is the intersection of the two capability sets and the
\* unique sets are the two differences.
C22_CompareModelsAntiSymmetric ==
    ( /\ last.op = "CompareModels"
      /\ last.model1 \in DOMAIN ModelRegistry
      /\ last.model2 \in DOMAIN ModelRegistry ) =>
        /\ last.err = Nil
        /\ ~last.cmp.isNil
        /\ Elems(last.cmp.SharedCapabilities) =
              Caps(last.model1) \cap Caps(last.model2)
        /\ Elems(last.cmp.UniqueToFirst) =
              Caps(last.model1) \ Caps(last.model2)
        /\ Elems(last.cmp.UniqueToSecond) =
              Caps(last.model2) \ Caps(last.model1)
        /\ \A order1 \in CapabilityOrders, order2 \in CapabilityOrders :
              LET swapped == CompareModelsResult(last.model2, last.model1,
                                                 order1, order2)
              IN  /\ swapped.err = Nil
                  /\ swapped.cmp.CostDiff = RatNeg(last.cmp.CostDiff)
                  /\ swapped.cmp.LatencyDiff = 0 - last.cmp.LatencyDiff
                  /\ swapped.cmp.TokenLimitDiff = 0 - last.cmp.TokenLimitDiff
                  /\ Elems(swapped.cmp.UniqueToFirst) =
                        Elems(last.cmp.UniqueToSecond)
                  /\ Elems(swapped.cmp.UniqueToSecond) =
                        Elems(last.cmp.UniqueToFirst)
                  /\ Elems(swapped.cmp.SharedCapabilities) =
                        Elems(last.cmp.SharedCapabilities)

\* two catalog models that share capabilities and each have one of their own
C22_Witness ==
    /\ last.op = "CompareModels"
    /\ last.model1 = GPT4
    /\ last.model2 = Claude3Opus
    /\ last.err = Nil
    /\ last.cmp.CostDiff = Rat(3, 200)
    /\ last.cmp.LatencyDiff = 0 - 500
    /\ last.cmp.UniqueToFirst = <<MultilingualSupport>>
    /\ last.cmp.UniqueToSecond = <<SemanticAnalysis>>
    /\ Len(last.cmp.SharedCapabilities) = 4

\* the catalog models that pass the four filters of RecommendModel
PassingModels(contentType, constraints) ==
    LET required == Elems(constraints.RequiredCapabilities)
                        \cup Elems(ContentTypeCapabilities(contentType))
    IN  { m \in DOMAIN ModelRegistry :
            /\ ~RatGreater(ModelRegistry[m].Cost.InputPerThousandTokens,
                           constraints.MaxCostPerThousandTokens)
            /\ ModelRegistry[m].AvgLatencyMs <= constraints.MaxLatencyMs
            /\ ModelRegistry[m].MaxTokens >= constraints.MinTokenLimit
            /\ required \subseteq Caps(m) }

\* C23: RecommendModel returns exactly the catalog models whose input cost
\* and latency are within the constraints, whose token limit is at least
\* MinTokenLimit and whose capabilities include the required ones and those
\* of the content type, each once; it returns no model whose token limit is
\* below MinTokenLimit.
C23_RecommendModelFilters ==
    last.op = "RecommendModel" =>
        /\ Elems(last.models) =
              PassingModels(last.contentType, last.constraints)
        /\ \A i, j \in 1..Len(last.models) :
              last.models[i] = last.models[j] => i = j
        /\ \A i \in 1..Len(last.models) :
              ModelRegistry[last.models[i]].MaxTokens
                  >= last.constraints.MinTokenLimit

\* a call whose token limit alone rules a model out
C23_Witness ==
    /\ last.op = "RecommendModel"
    /\ last.contentType = TechnicalDoc
    /\ last.constraints.MinTokenLimit = 8193
    /\ last.constraints.MaxLatencyMs = 2500
    /\ last.constraints.MaxCostPerThousandTokens = Rat(3, 100)
    /\ last.constraints.RequiredCapabilities = <<HighAccuracy>>
    /\ last.models = <<Claude3Opus>>

----------------------------------------------------------------------------
(* Properties of the comparison helpers *)

\* the word-frequency vector of a summary
WordFreq(summary) == Freq(Fields(ToLower(summary)))

\* C30: the SummarySimilarity of CompareClassifications is the cosine
\* similarity of the word-frequency vectors of the two summaries: it is the
\* same with the summaries exchanged, lies between 0 and 1, is 0 when a
\* summary has no words and is 1 when both summaries have the same
\* non-empty multiset of lower-cased words.
C30_SimilarityIsCosine ==
    last.op = "CompareClassifications" =>
        LET sim == last.result.SummarySimilarity
            freqA == WordFreq(last.a.Summary)
            freqB == WordFreq(last.b.Summary)
        IN  /\ sim = calculateSimilarity(last.b.Summary, last.a.Summary)
            /\ ~RatGreater(Float(0), sim)
            /\ ~RatGreater(sim, Float(1))
            /\ (DOMAIN freqA = {} \/ DOMAIN freqB = {}) => sim = Float(0)
            /\ (DOMAIN freqA # {} /\ freqA = freqB) => sim = Float(1)

----------------------------------------------------------------------------
(* Properties of the provider selection *)

\* C29: NewClassifier returns no error for any provider value and builds
\* the OpenAI backend for every value other than "azure", "anthropic" and
\* "custom"; ProviderFromString maps "openai", "anthropic" and "azure" in
\* any letter case to their providers and every other string, "custom"
\* included, to OpenAI.
C29_ProviderFallsBackToOpenAI ==
    /\ last.op = "NewClassifier" =>
          /\ last.err = Nil
          /\ backend # NoBackend
          /\ last.provider \notin {"azure", "anthropic", "custom"} =>
                backend.variant = "gpt"
          /\ last.provider = "azure" => backend.variant = "azure"
          /\ last.provider = "anthropic" => backend.variant = "anthropic"
          /\ last.provider = "custom" => backend.variant = "custom"
    /\ last.op = "ProviderFromString" =>
          /\ EqualFold(last.name, <<"o", "p", "e", "n", "a", "i">>) =>
                last.provider = "openai"
          /\ EqualFold(last.name,
                       <<"a", "n", "t", "h", "r", "o", "p", "i", "c">>) =>
                last.provider = "anthropic"
          /\ EqualFold(last.name, <<"a", "z", "u", "r", "e">>) =>
                last.provider = "azure"
          /\ ( /\ ~EqualFold(last.name,
                             <<"a", "n", "t", "h", "r", "o", "p", "i", "c">>)
               /\ ~EqualFold(last.name, <<"a", "z", "u", "r", "e">>) ) =>
                last.provider = "openai"
          /\ EqualFold(last.name, <<"c", "u", "s", "t", "o", "m">>) =>
                last.provider = "openai"

\* a provider NewClassifier does not know was given the OpenAI backend
C29_Witness ==
    /\ last.op = "NewClassifier"
    /\ last.provider = "gemini"
    /\ last.err = Nil
    /\ backend.variant = "gpt"

====
